---- MODULE Spec2Model ----
(***************************************************************************)
(* Tree transformation engine of too-many-cells-interactive.               *)
(*                                                                         *)
(* The program keeps d3-hierarchy trees: every tree is a graph of Node     *)
(* objects (parent, children, value, depth, data) and every Node points to *)
(* a TMCNode payload (id, parentId, items, distance).  node.copy() makes   *)
(* new Node objects that point to the SAME payloads.  The model keeps the  *)
(* Node graphs in `heap` (one slot per tree instance, a Node's address is  *)
(* the pair slot/ref) and the payloads in `payload`.                       *)
(***************************************************************************)
EXTENDS Integers, Sequences, FiniteSets, TLC

\* ------------------------------------------------------------------ bounds
MaxNodes == 3
MaxThreshold == 3
\* steps of a prune history
MaxSteps == 3
\* feature loads in flight at a time
MaxLoads == 2
\* the greatest key of a histogram
MaxKey == 2

\* null / undefined of the source
NULL == -1

Refs == 1..MaxNodes
Slots == 0..3
\* _distance values of the input file: null, zero, and a positive distance
Distances == {NULL, 0, 1}
\* number of cells of a leaf
ItemCounts == {1, 2}
Thresholds == 0..MaxThreshold
Depths == 0..(MaxNodes - 1)
\* ids asked for by collapseNode / setRootNode; MaxNodes + 1 is the id of no node
Ids == 1..(MaxNodes + 1)
\* barcodes (_barcode.unCell) of the cells: cell j of the leaf with payload r
Barcodes == {10 * r + j : r \in Refs, j \in ItemCounts}
\* feature names, and the values a fetched feature map holds for a barcode
\* (NULL: the barcode is absent from the map)
Features == {"F", "G"}
FeatureValues == {NULL, 1}
\* the feature names the search offers, in ascending order of < on strings (the
\* annotation effects are run with the first two, Features)
FeatureNames == <<"F", "G", "H">>
\* the values the feature source holds for a barcode, per feature
SourceValues(f) == IF f = "F" THEN {NULL, 1, 5} ELSE {NULL, 1}
\* thresholds the store can hold for a feature: none, or a slider value
ThresholdValues(f) == IF f = "F" THEN {NULL, 0, 3} ELSE {NULL, 1}

VARIABLES
    payload,    \* Ref -> TMCNode payload object (shared by all copies of a tree)
    cells,      \* barcode -> _featureCounts of the cell object (shared through payload.items)
    heap,       \* Slot -> tree instance (the Node objects of one tree); slot 0 is `tree`
    visibleNodes, \* slot of the visible tree (slot 0 until something is pruned)
    call,       \* the call in progress: function, argument, input, output, and the
                \* input tree and the payloads as they were before the call
    load,       \* getData(): its position, the fetched files and what it has built
    annot,      \* the feature annotation effects: the store they read and what they wrote
    prune,      \* the pruning effects: the prune history they read and what they did
    scale,      \* FeatureSearch: the active features, the colour scale, the loads in flight
    brush       \* the brush of a Histogram: its bins, its closure variables, what it shows

vars == <<payload, cells, heap, visibleNodes, call, load, annot, prune, scale, brush>>

\* ------------------------------------------------------------------ helpers
Range(s) == {s[i] : i \in 1..Len(s)}

Reverse(s) == [i \in 1..Len(s) |-> s[Len(s) + 1 - i]]

\* items.reduce((acc, curr) => acc + curr, 0)
RECURSIVE SeqSum(_)
SeqSum(s) == IF s = <<>> THEN 0 ELSE Head(s) + SeqSum(Tail(s))

NoPayload == [id |-> NULL, parentId |-> NULL, items |-> <<>>, distance |-> NULL]

NoTree ==
    [root |-> NULL, nodes |-> {},
     parent |-> [r \in Refs |-> NULL],
     children |-> [r \in Refs |-> <<>>],
     value |-> [r \in Refs |-> 0],
     depth |-> [r \in Refs |-> 0],
     data |-> [r \in Refs |-> NULL]]

\* ------------------------------------------------------------------ d3-hierarchy
\* node.descendants(): the node and everything below it through `children`
RECURSIVE descendants(_, _)
descendants(t, n) ==
    {n} \cup UNION {descendants(t, t.children[n][i]) : i \in 1..Len(t.children[n])}

RECURSIVE depthOf(_, _)
depthOf(par, n) == IF par[n] = NULL THEN 0 ELSE 1 + depthOf(par, par[n])

\* a copy() that hands back the tree itself instead of new Node objects
copyShared(m, src, n) == [m EXCEPT !.ret = src]

\* a copy() that recomputes value as the number of nodes of the subtree
copyRecount(m, src, n) ==
    LET t == m.heap[src]
        dst == CHOOSE s \in Slots \ {0} : m.heap[s] = NoTree
        ns == descendants(t, n)
        par == [r \in Refs |->
                   IF r \in ns \ {n}
                   THEN CHOOSE p \in ns : r \in Range(t.children[p])
                   ELSE NULL]
        new == [root |-> n, nodes |-> ns,
                parent |-> par,
                children |-> [r \in Refs |-> IF r \in ns THEN t.children[r] ELSE <<>>],
                value |-> [r \in Refs |->
                              IF r \in ns THEN Cardinality(descendants(t, r)) ELSE 0],
                depth |-> [r \in Refs |-> IF r \in ns THEN depthOf(par, r) ELSE 0],
                data |-> [r \in Refs |-> IF r \in ns THEN t.data[r] ELSE NULL]]
    IN  [m EXCEPT !.heap[dst] = new, !.ret = dst]

\* node.copy() == hierarchy(node).eachBefore(copyData): new Node objects for the
\* node and its descendants, in a fresh slot; value copied, depth recomputed from
\* the new root, parent links rebuilt from the children lists, data pointers shared.
copy(m, src, n) ==
    LET t == m.heap[src]
        dst == CHOOSE s \in Slots \ {0} : m.heap[s] = NoTree
        ns == descendants(t, n)
        par == [r \in Refs |->
                   IF r \in ns \ {n}
                   THEN CHOOSE p \in ns : r \in Range(t.children[p])
                   ELSE NULL]
        new == [root |-> n, nodes |-> ns,
                parent |-> par,
                children |-> [r \in Refs |-> IF r \in ns THEN t.children[r] ELSE <<>>],
                value |-> [r \in Refs |-> IF r \in ns THEN t.value[r] ELSE 0],
                depth |-> [r \in Refs |-> IF r \in ns THEN depthOf(par, r) ELSE 0],
                data |-> [r \in Refs |-> IF r \in ns THEN t.data[r] ELSE NULL]]
    IN  [m EXCEPT !.heap[dst] = new, !.ret = dst]

\* callbacks of the pruning functions, each acting on the Node d of tree t

\* a size callback that takes only the node itself out of its parent's children
minValueCbOnlyNode(pl, t, d, minSize) ==
    IF t.value[d] < minSize /\ t.parent[d] # NULL
    THEN [t EXCEPT !.children[t.parent[d]] = SelectSeq(@, LAMBDA c : c # d)]
    ELSE t

\* a size callback with the comparison turned around
minValueCbAbove(pl, t, d, minSize) ==
    IF t.value[d] > minSize /\ t.parent[d] # NULL
    THEN [t EXCEPT !.children[t.parent[d]] = <<>>]
    ELSE t

minValueCb(pl, t, d, minSize) ==
    IF t.value[d] < minSize /\ t.parent[d] # NULL
    THEN [t EXCEPT !.children[t.parent[d]] = <<>>]
    ELSE t

\* a depth callback that also cuts the nodes at the limit
depthCbInclusive(pl, t, d, depth) ==
    IF t.depth[d] >= depth /\ t.parent[d] # NULL
    THEN [t EXCEPT !.children[t.parent[d]] = <<>>]
    ELSE t

depthCb(pl, t, d, depth) ==
    IF t.depth[d] > depth /\ t.parent[d] # NULL
    THEN [t EXCEPT !.children[t.parent[d]] = <<>>]
    ELSE t

\* !d.data.distance || d.data.distance < distance
belowDistance(pl, t, d, distance) ==
    LET dist == pl[t.data[d]].distance
    IN  dist = NULL \/ dist = 0 \/ dist < distance

\* a distance callback that cuts the node off its parent instead of its children
minDistanceCbDetach(pl, t, d, distance) ==
    IF belowDistance(pl, t, d, distance) /\ t.parent[d] # NULL
    THEN [t EXCEPT !.children[t.parent[d]] = <<>>]
    ELSE t

minDistanceCb(pl, t, d, distance) ==
    IF belowDistance(pl, t, d, distance)
    THEN [t EXCEPT !.children[d] = <<>>]
    ELSE t

\* a search callback that takes only the node itself out of its parent's children
minDistanceSearchCbOnlyNode(pl, t, d, distance) ==
    IF belowDistance(pl, t, d, distance) /\ t.parent[d] # NULL
    THEN [t EXCEPT !.children[t.parent[d]] = SelectSeq(@, LAMBDA c : c # d)]
    ELSE t

minDistanceSearchCb(pl, t, d, distance) ==
    IF belowDistance(pl, t, d, distance) /\ t.parent[d] # NULL
    THEN [t EXCEPT !.children[t.parent[d]] = <<>>]
    ELSE t

\* a collapse callback that clears the children of the parent of the named node
collapseCbParent(pl, t, n, nodeId) ==
    IF pl[t.data[n]].id = nodeId /\ t.parent[n] # NULL
    THEN [t EXCEPT !.children[t.parent[n]] = <<>>]
    ELSE t

collapseCb(pl, t, n, nodeId) ==
    IF pl[t.data[n]].id = nodeId
    THEN [t EXCEPT !.children[n] = <<>>]
    ELSE t

callback(cb, arg, pl, t, d) ==
    CASE cb = "minValue" -> minValueCb(pl, t, d, arg)
      [] cb = "depth" -> depthCb(pl, t, d, arg)
      [] cb = "minDistance" -> minDistanceCb(pl, t, d, arg)
      [] cb = "minDistanceSearch" -> minDistanceSearchCb(pl, t, d, arg)
      [] cb = "collapse" -> collapseCb(pl, t, d, arg)

\* node.eachBefore(callback): pop a node, call back, then push its children
\* (read after the callback), last child first
RECURSIVE eachBeforeLoop(_, _, _, _, _)
eachBeforeLoop(pl, t, nodes, cb, arg) ==
    IF nodes = <<>> THEN t
    ELSE LET node == nodes[Len(nodes)]
             t2 == callback(cb, arg, pl, t, node)
         IN  eachBeforeLoop(pl, t2,
                 SubSeq(nodes, 1, Len(nodes) - 1) \o Reverse(t2.children[node]),
                 cb, arg)

eachBefore(pl, t, cb, arg) == eachBeforeLoop(pl, t, <<t.root>>, cb, arg)

\* node.eachAfter(callback): first collect every node (pop a node, push it on
\* `next`, push its children first child first), then call back on `next` popped
\* from its end: the callbacks run after the whole tree has been walked
RECURSIVE collectAfter(_, _, _)
collectAfter(t, nodes, next) ==
    IF nodes = <<>> THEN next
    ELSE LET node == nodes[Len(nodes)]
         IN  collectAfter(t,
                 SubSeq(nodes, 1, Len(nodes) - 1) \o t.children[node],
                 Append(next, node))

RECURSIVE eachAfterLoop(_, _, _, _, _)
eachAfterLoop(pl, t, next, cb, arg) ==
    IF next = <<>> THEN t
    ELSE eachAfterLoop(pl, callback(cb, arg, pl, t, next[Len(next)]),
             SubSeq(next, 1, Len(next) - 1), cb, arg)

eachAfter(pl, t, cb, arg) ==
    eachAfterLoop(pl, t, collectAfter(t, <<t.root>>, <<>>), cb, arg)

\* ------------------------------------------------------------------ prepareData.ts
\* comparator of buildTree's sort
compareItems(pl, a, b) ==
    IF Len(pl[a].items) > Len(pl[b].items) THEN -1 ELSE 1

\* Array.prototype.sort on a short array (insertion): x goes before the first
\* element it compares below
insertChild(pl, acc, x) ==
    LET before == {i \in 1..Len(acc) : compareItems(pl, x, acc[i]) < 0}
        k == IF before = {} THEN Len(acc) + 1
             ELSE CHOOSE i \in before : \A j \in before : i <= j
    IN  SubSeq(acc, 1, k - 1) \o <<x>> \o SubSeq(acc, k, Len(acc))

RECURSIVE sortChildren(_, _, _)
sortChildren(pl, acc, rest) ==
    IF rest = <<>> THEN acc
    ELSE sortChildren(pl, insertChild(pl, acc, Head(rest)), Tail(rest))

\* a sum that adds the items of the node and of its children only
sumValueChildren(pl, ch, n) ==
    LET RECURSIVE over(_)
        over(s) == IF s = <<>> THEN 0 ELSE Len(pl[Head(s)].items) + over(Tail(s))
    IN  Len(pl[n].items) + over(ch[n])

RECURSIVE sumValue(_, _, _)
sumValue(pl, ch, n) ==
    LET RECURSIVE over(_)
        over(s) == IF s = <<>> THEN 0 ELSE sumValue(pl, ch, Head(s)) + over(Tail(s))
    IN  Len(pl[n].items) + over(ch[n])

\* buildTree(flat): stratify the flat list, sort the children of every node by
\* the comparator, then sum the item counts bottom-up into `value`
buildTree(flat) ==
    LET n == Len(flat)
        pl == [r \in Refs |-> IF r <= n THEN flat[r] ELSE NoPayload]
        par == [r \in Refs |->
                   IF r <= n /\ flat[r].parentId # NULL
                   THEN CHOOSE p \in 1..n : flat[p].id = flat[r].parentId
                   ELSE NULL]
        kids(p) == SelectSeq([i \in 1..n |-> i], LAMBDA c : par[c] = p)
        ch == [r \in Refs |-> IF r <= n THEN sortChildren(pl, <<>>, kids(r)) ELSE <<>>]
    IN  [root |-> 1, nodes |-> 1..n,
         parent |-> par,
         children |-> ch,
         value |-> [r \in Refs |-> IF r <= n THEN sumValue(pl, ch, r) ELSE 0],
         depth |-> [r \in Refs |-> IF r <= n THEN depthOf(par, r) ELSE 0],
         data |-> [r \in Refs |-> IF r <= n THEN r ELSE NULL]]

\* the flat lists flatten() can emit: preorder, ids distinct, parentId = id of
\* the enclosing node, items only on leaves
RECURSIVE ancestorsOrSelf(_, _)
ancestorsOrSelf(par, i) ==
    IF i = 1 THEN {1} ELSE {i} \cup ancestorsOrSelf(par, par[i])

ParentVectors(n) ==
    {par \in [1..n -> {NULL} \cup (1..n)] :
        /\ par[1] = NULL
        /\ \A i \in 2..n : par[i] \in 1..(i - 1)
        /\ \A i \in 2..n : par[i] \in ancestorsOrSelf(par, i - 1)}

cellsOf(r, k) == [j \in 1..k |-> 10 * r + j]

isParent(par, n, i) == \E c \in 1..n : par[c] = i

ItemCountVectors(par, n) ==
    {c \in [1..n -> ItemCounts] : \A i \in 1..n : isParent(par, n, i) => c[i] = 1}

FlatListsOf(par, n) ==
    { [i \in 1..n |->
          [id |-> i, parentId |-> par[i],
           items |-> IF isParent(par, n, i) THEN <<>> ELSE cellsOf(i, cnt[i]),
           distance |-> dist[i]]] :
        dist \in [1..n -> Distances], cnt \in ItemCountVectors(par, n) }

FlatLists ==
    UNION { UNION { FlatListsOf(par, n) : par \in ParentVectors(n) } : n \in 1..MaxNodes }

\* buildTree on a flat list of any length: the nodes are 1..Len(flat)
buildTreeOf(flat) ==
    LET n == Len(flat)
        par == [r \in 1..n |->
                   IF flat[r].parentId # NULL
                   THEN CHOOSE p \in 1..n : flat[p].id = flat[r].parentId
                   ELSE NULL]
        kids(p) == SelectSeq([i \in 1..n |-> i], LAMBDA c : par[c] = p)
        ch == [r \in 1..n |-> sortChildren(flat, <<>>, kids(r))]
    IN  [root |-> CHOOSE r \in 1..n : flat[r].parentId = NULL,
         nodes |-> 1..n,
         parent |-> par,
         children |-> ch,
         value |-> [r \in 1..n |-> sumValue(flat, ch, r)],
         depth |-> [r \in 1..n |-> depthOf(par, r)],
         data |-> [r \in 1..n |-> r]]

\* the tree file: every node is an optional metadata object (_item, _distance)
\* and its subtrees; leaves carry cells, the nodes above them carry none (the
\* root comes with and without its metadata object)
LoadNodes == MaxNodes + 1

RECURSIVE RoseTrees(_, _)
RECURSIVE RoseForests(_, _)
\* the rose trees of n nodes whose root is the i-th node of the file
RoseTrees(n, i) ==
    IF n = 1
    THEN {[hasMeta |-> TRUE, _item |-> cellsOf(i, k), _distance |-> 1, children |-> <<>>] :
             k \in ItemCounts}
    ELSE {[hasMeta |-> h, _item |-> <<>>, _distance |-> IF h THEN 1 ELSE NULL,
           children |-> f] :
             h \in IF i = 1 THEN BOOLEAN ELSE {TRUE}, f \in RoseForests(n - 1, i + 1)}

RoseForests(k, i) ==
    IF k = 0 THEN {<<>>}
    ELSE UNION { {<<t>> \o f : t \in RoseTrees(j, i), f \in RoseForests(k - j, i + j)} :
                   j \in 1..k }

RoseFiles == UNION {RoseTrees(n, 1) : n \in 1..LoadNodes}

\* uuid(): a value no earlier call has returned (the k-th call returns 100 + k)
uuid(k) == 100 + k

\* a flatten that records the id of the node pushed last as parentId
RECURSIVE flattenChain(_, _, _)
flattenChain(data, nodes, parentId) ==
    LET node == [id |-> uuid(Len(nodes) + 1), parentId |-> parentId,
                 items |-> IF data.hasMeta THEN data._item ELSE <<>>,
                 distance |-> IF data.hasMeta THEN data._distance ELSE NULL]
        RECURSIVE each(_, _)
        each(sub, acc) ==
            IF sub = <<>> THEN acc
            ELSE each(Tail(sub), flattenChain(Head(sub), acc, acc[Len(acc)].id))
    IN  each(data.children, Append(nodes, node))

\* flatten(data, nodes, parentId): push the node of `data` with a fresh id and the
\* given parentId, then flatten its subtrees, in order, with its id as parentId
RECURSIVE flatten(_, _, _)
flatten(data, nodes, parentId) ==
    LET node == [id |-> uuid(Len(nodes) + 1), parentId |-> parentId,
                 items |-> IF data.hasMeta THEN data._item ELSE <<>>,
                 distance |-> IF data.hasMeta THEN data._distance ELSE NULL]
        RECURSIVE each(_, _)
        each(sub, acc) ==
            IF sub = <<>> THEN acc
            ELSE each(Tail(sub), flatten(Head(sub), acc, node.id))
    IN  each(data.children, Append(nodes, node))

\* labels.csv: a header line, then for every cell of the file either its line
\* "barcode,label" or no line for it
Labels == {"red", "blue"}

NoLine == [k |-> NULL, v |-> ""]

RECURSIVE cellsOfFile(_)
cellsOfFile(data) ==
    LET RECURSIVE each(_)
        each(sub) == IF sub = <<>> THEN <<>> ELSE cellsOfFile(Head(sub)) \o each(Tail(sub))
    IN  (IF data.hasMeta THEN data._item ELSE <<>>) \o each(data.children)

LabelFiles(data) ==
    LET bs == cellsOfFile(data)
    IN  {<<[k |-> 0, v |-> "label"]>> \o
             [i \in 1..Len(bs) |->
                 IF vs[i] = "" THEN NoLine ELSE [k |-> bs[i], v |-> vs[i]]] :
            vs \in [1..Len(bs) -> Labels \cup {""}]}

\* labelMap: the lines after the first, split at the comma, as key -> value
parseLabels(lines) ==
    LET rows == {i \in 2..Len(lines) : lines[i] # NoLine}
    IN  [b \in {lines[i].k : i \in rows} |->
            lines[CHOOSE i \in rows : lines[i].k = b].v]

\* the property name labelMap[barcode] turns into
labelKey(labelMap, b) == IF b \in DOMAIN labelMap THEN labelMap[b] ELSE "undefined"

NoCounts == [k \in {} |-> 0]

\* items.reduce((acc, curr) => ({...acc, [label]: (acc[label] || 0) + 1}), {})
RECURSIVE countLabels(_, _, _)
countLabels(labelMap, items, acc) ==
    IF items = <<>> THEN acc
    ELSE LET k == labelKey(labelMap, Head(items))
         IN  countLabels(labelMap, Tail(items),
                 [x \in DOMAIN acc \cup {k} |->
                     IF x = k THEN (IF k \in DOMAIN acc THEN acc[k] ELSE 0) + 1
                     ELSE acc[x]])

\* a merge that keeps only the keys both objects have
mergeCommon(obj1, obj2) ==
    [k \in DOMAIN obj1 \cap DOMAIN obj2 |-> obj1[k] + obj2[k]]

\* merge(obj1, obj2): over the keys of both, (obj1[k] || 0) + (obj2[k] || 0)
merge(obj1, obj2) ==
    [k \in DOMAIN obj1 \cup DOMAIN obj2 |->
        (IF k \in DOMAIN obj1 THEN obj1[k] ELSE 0)
            + (IF k \in DOMAIN obj2 THEN obj2[k] ELSE 0)]

\* n.children.reduce((acc, cur) => merge(acc, cur.data.labelCount), {})
RECURSIVE mergeChildren(_, _, _)
mergeChildren(labelCount, children, acc) ==
    IF children = <<>> THEN acc
    ELSE mergeChildren(labelCount, Tail(children), merge(acc, labelCount[Head(children)]))

\* tree.eachAfter(n => n.data.labelCount = ...): counted on the nodes with
\* items, merged from the children on the others
RECURSIVE labelLoop(_, _, _, _, _)
labelLoop(t, pl, labelMap, next, labelCount) ==
    IF next = <<>> THEN labelCount
    ELSE LET n == next[Len(next)]
             new == IF pl[t.data[n]].items # <<>>
                    THEN countLabels(labelMap, pl[t.data[n]].items, NoCounts)
                    ELSE mergeChildren(labelCount, t.children[n], NoCounts)
         IN  labelLoop(t, pl, labelMap, SubSeq(next, 1, Len(next) - 1),
                       [labelCount EXCEPT ![n] = new])

labelPass(t, pl, labelMap) ==
    labelLoop(t, pl, labelMap, collectAfter(t, <<t.root>>, <<>>),
              [n \in t.nodes |-> NoCounts])

\* the order in which eachBefore visits the nodes
RECURSIVE preorder(_, _, _)
preorder(t, nodes, seen) ==
    IF nodes = <<>> THEN seen
    ELSE LET node == nodes[Len(nodes)]
         IN  preorder(t, SubSeq(nodes, 1, Len(nodes) - 1) \o Reverse(t.children[node]),
                      Append(seen, node))

\* tree.eachBefore((n, i) => n.data.nodeId = i)
nodeIdPass(t) ==
    LET order == preorder(t, <<t.root>>, <<>>)
    IN  [n \in t.nodes |-> (CHOOSE i \in 1..Len(order) : order[i] = n) - 1]

\* ------------------------------------------------------------------ util.ts
pruneTreeByMinValue(m, tree, minSize) ==
    LET c == copy(m, tree, m.heap[tree].root)
    IN  [c EXCEPT !.heap[c.ret] = eachBefore(c.payload, @, "minValue", minSize)]

pruneTreeByDepth(m, tree, depth) ==
    LET c == copy(m, tree, m.heap[tree].root)
    IN  [c EXCEPT !.heap[c.ret] = eachAfter(c.payload, @, "depth", depth)]

pruneTreeByMinDistance(m, tree, distance) ==
    LET c == copy(m, tree, m.heap[tree].root)
    IN  [c EXCEPT !.heap[c.ret] = eachBefore(c.payload, @, "minDistance", distance)]

pruneTreeByMinDistanceSearch(m, tree, distance) ==
    LET c == copy(m, tree, m.heap[tree].root)
    IN  [c EXCEPT !.heap[c.ret] = eachAfter(c.payload, @, "minDistanceSearch", distance)]

\* tree.find(n => n.data.id === nodeId): the nodes of the tree with that id
findById(m, tree, nodeId) ==
    {n \in descendants(m.heap[tree], m.heap[tree].root) :
        m.payload[m.heap[tree].data[n]].id = nodeId}

\* setRootNode: copy the found node, clear the copy's parent link, and clear
\* parentId in the payload the copy's root points to
setRootNode(m, tree, nodeId) ==
    LET targetNode == CHOOSE n \in findById(m, tree, nodeId) : TRUE
        c == copy(m, tree, targetNode)
        root == c.heap[c.ret].root
    IN  [c EXCEPT !.heap[c.ret].parent[root] = NULL,
                  !.payload[c.heap[c.ret].data[root]].parentId = NULL]

collapseNode(m, tree, nodeId) ==
    LET c == copy(m, tree, m.heap[tree].root)
    IN  [c EXCEPT !.heap[c.ret] = eachAfter(c.payload, @, "collapse", nodeId)]

\* ------------------------------------------------------------------ usePrunedTree.ts
\* tree.leaves(): the nodes of the tree without children
leaves(t) == {n \in descendants(t, t.root) : t.children[n] = <<>>}

\* an annotation that starts every cell from an empty _featureCounts object
addFeaturesToCellsFresh(m, tree, featureMaps) ==
    LET t == m.heap[tree]
        touched == UNION {Range(m.payload[t.data[n]].items) : n \in leaves(t)}
        fcounts(b) ==
            [f \in Features |->
                IF f \in DOMAIN featureMaps
                THEN IF featureMaps[f][b] = NULL THEN 0 ELSE featureMaps[f][b]
                ELSE NULL]
    IN  [m EXCEPT !.cells = [b \in Barcodes |-> IF b \in touched THEN fcounts(b) ELSE @[b]],
                  !.ret = tree]

\* addFeaturesToCells(tree, featureMaps): for every feature of the maps and every
\* cell of every leaf, cell._barcode._featureCounts[feature] = map[unCell] || 0,
\* written on the cell object itself
addFeaturesToCells(m, tree, featureMaps) ==
    LET t == m.heap[tree]
        touched == UNION {Range(m.payload[t.data[n]].items) : n \in leaves(t)}
        fcounts(b) ==
            [f \in Features |->
                IF f \in DOMAIN featureMaps
                THEN IF featureMaps[f][b] = NULL THEN 0 ELSE featureMaps[f][b]
                ELSE m.cells[b][f]]
    IN  [m EXCEPT !.cells = [b \in Barcodes |-> IF b \in touched THEN fcounts(b) ELSE @[b]],
                  !.ret = tree]

\* the cells of the leaves of t, in the order of t.leaves().flatMap(l => l.data.items)
RECURSIVE itemsOf(_, _)
itemsOf(pl, ns) ==
    IF ns = <<>> THEN <<>> ELSE pl[Head(ns)].items \o itemsOf(pl, Tail(ns))

leafItems(t, pl) ==
    itemsOf(pl, SelectSeq(preorder(t, <<t.root>>, <<>>),
                          LAMBDA n : t.children[n] = <<>>))

\* ascending sort of an array of numbers
RECURSIVE sortNumbers(_, _)
sortNumbers(acc, rest) ==
    IF rest = <<>> THEN acc
    ELSE LET x == Head(rest)
             k == Cardinality({i \in 1..Len(acc) : acc[i] <= x})
         IN  sortNumbers(SubSeq(acc, 1, k) \o <<x>> \o SubSeq(acc, k + 1, Len(acc)),
                         Tail(rest))

\* d3 median: undefined for no values, else the 0.5-quantile of the sorted
\* values, v0 + (v1 - v0) * 0.5 between the two middle values of an even count
\* (the values of the model keep it an integer)
median(values) ==
    IF values = <<>> THEN NULL
    ELSE LET sorted == sortNumbers(<<>>, values)
             n == Len(sorted)
             v0 == sorted[((n - 1) \div 2) + 1]
             v1 == sorted[(n \div 2) + 1]
         IN  v0 + ((v1 - v0) \div 2)

\* item._barcode._featureCounts[k] || 0
countOrZero(cs, b, k) == IF cs[b][k] = NULL THEN 0 ELSE cs[b][k]

\* a default threshold that takes the median over all values, zeros included
defaultThresholdAll(t, pl, cs, k) ==
    median([i \in 1..Len(leafItems(t, pl)) |-> countOrZero(cs, leafItems(t, pl)[i], k)])

\* thresholds[k] of the featureMaps effect: median(range.filter(Boolean))
defaultThreshold(t, pl, cs, k) ==
    LET range == [i \in 1..Len(leafItems(t, pl)) |-> countOrZero(cs, leafItems(t, pl)[i], k)]
    IN  median(SelectSeq(range, LAMBDA v : v # 0))

\* k1 < k2 on feature names
nameLess(k1, k2) ==
    (CHOOSE i \in 1..Len(FeatureNames) : FeatureNames[i] = k1)
        < (CHOOSE i \in 1..Len(FeatureNames) : FeatureNames[i] = k2)

\* .sort(([k1], [k2]) => (k1 < k2 ? -1 : 1)) on a short array
RECURSIVE sortNames(_, _)
sortNames(acc, rest) ==
    IF rest = <<>> THEN acc
    ELSE LET x == Head(rest)
             before == {i \in 1..Len(acc) : nameLess(x, acc[i])}
             k == IF before = {} THEN Len(acc) + 1
                  ELSE CHOOSE i \in before : \A j \in before : i <= j
         IN  sortNames(SubSeq(acc, 1, k - 1) \o <<x>> \o SubSeq(acc, k, Len(acc)),
                       Tail(rest))

\* a high/low test without the guard on the value
hiOrLoPlain(v, threshold) ==
    IF threshold # NULL /\ v >= threshold THEN "high" ELSE "low"

\* v && v >= thresholds[k] ? 'high' : 'low' (a comparison with undefined is false)
hiOrLo(v, threshold) ==
    IF v # 0 /\ threshold # NULL /\ v >= threshold THEN "high" ELSE "low"

\* a key built from the entries in the order the cell holds them
categoryKeyUnsorted(counts, entries, thresholds, activeFeatures) ==
    LET filtered == SelectSeq(entries, LAMBDA k : k \in Range(activeFeatures))
        RECURSIVE reduce(_, _)
        reduce(acc, ks) ==
            IF ks = <<>> THEN acc
            ELSE reduce((IF acc # "" THEN acc \o "-" ELSE "")
                            \o hiOrLo(counts[Head(ks)], thresholds[Head(ks)])
                            \o "-" \o Head(ks),
                        Tail(ks))
    IN  reduce("", filtered)

\* the key of one cell: the entries of its _featureCounts (in the order the
\* features were written), those of active features only, sorted by name, each
\* adding '<high|low>-<name>', joined by '-'
categoryKey(counts, entries, thresholds, activeFeatures) ==
    LET filtered == SelectSeq(entries, LAMBDA k : k \in Range(activeFeatures))
        RECURSIVE reduce(_, _)
        reduce(acc, ks) ==
            IF ks = <<>> THEN acc
            ELSE reduce((IF acc # "" THEN acc \o "-" ELSE "")
                            \o hiOrLo(counts[Head(ks)], thresholds[Head(ks)])
                            \o "-" \o Head(ks),
                        Tail(ks))
    IN  reduce("", sortNames(<<>>, filtered))

\* the leaf branch of updatefeatureHiLos: the running total of keys of the cells
RECURSIVE tallyKeys(_, _, _)
tallyKeys(items, keyOf, hilo) ==
    IF items = <<>> THEN hilo
    ELSE LET key == keyOf[Head(items)]
         IN  tallyKeys(Tail(items), keyOf,
                 IF key = "" THEN hilo
                 ELSE [x \in DOMAIN hilo \cup {key} |->
                          IF x = key THEN (IF key \in DOMAIN hilo THEN hilo[key] ELSE 0) + 1
                          ELSE hilo[x]])

\* the other branch: for every child and every key of its featureHiLos, the node
\* takes the child's {scaleKey, quantity} object itself when it has none for the
\* key, and else adds the child's quantity to the object it has.  `at` is
\* key -> the leaf that made the object; `qty` holds the quantity of the objects
\* of every leaf.
RECURSIVE addChildren(_, _, _)
addChildren(children, st, at) ==
    IF children = <<>> THEN [st EXCEPT !.at = at]
    ELSE LET count == st.hilo[Head(children)]
             old == DOMAIN count \cap DOMAIN at
             qty == [l \in DOMAIN st.qty |->
                        [k \in DOMAIN st.qty[l] |->
                            IF k \in old /\ at[k] = l
                            THEN st.qty[l][k] + st.qty[count[k]][k]
                            ELSE st.qty[l][k]]]
         IN  addChildren(Tail(children), [st EXCEPT !.qty = qty],
                 [k \in DOMAIN at \cup DOMAIN count |->
                     IF k \in DOMAIN at THEN at[k] ELSE count[k]])

RECURSIVE hiLoLoop(_, _, _, _, _)
hiLoLoop(t, pl, keyOf, next, st) ==
    IF next = <<>> THEN st
    ELSE LET n == next[Len(next)]
             items == pl[t.data[n]].items
             tally == tallyKeys(items, keyOf, NoCounts)
             new == IF items # <<>>
                    THEN [st EXCEPT !.hilo[n] = [k \in DOMAIN tally |-> n],
                                    !.qty[n] = tally]
                    ELSE LET r == addChildren(t.children[n], st, NoCounts)
                         IN  [r EXCEPT !.hilo[n] = r.at]
         IN  hiLoLoop(t, pl, keyOf, SubSeq(next, 1, Len(next) - 1), new)

\* updatefeatureHiLos(nodes, thresholds, activeFeatures): eachAfter over the
\* tree; returns the key of every cell, and for every node its featureHiLos as
\* key -> object (hilo) with the quantities of the objects (qty)
updatefeatureHiLos(t, pl, cs, entries, thresholds, activeFeatures) ==
    LET keyOf == [b \in Barcodes |->
                     categoryKey(cs[b], SelectSeq(entries, LAMBDA k : cs[b][k] # NULL),
                                 thresholds, activeFeatures)]
        st == hiLoLoop(t, pl, keyOf, collectAfter(t, <<t.root>>, <<>>),
                       [hilo |-> [n \in Refs |-> NoCounts],
                        qty |-> [n \in Refs |-> NoCounts],
                        at |-> NoCounts])
    IN  [itemKey |-> keyOf, hilo |-> st.hilo, qty |-> st.qty]

\* n.data.featureHiLos as it reads after the pass: key -> quantity
featureHiLosOf(r, n) == [k \in DOMAIN r.hilo[n] |-> r.qty[r.hilo[n][k]][k]]

\* updateFeatureCounts(nodes, feature): eachAfter; a node with items gets the
\* mean of its cells' counts, another node (children[0] + children[1]) /
\* (descendants - 1); quantities are kept as fractions num/den.  Reading
\* children[1] of a node with one child throws, and the pass ends there.
RECURSIVE featureCountLoop(_, _, _, _, _, _)
featureCountLoop(t, pl, cs, feature, next, st) ==
    IF next = <<>> \/ st.threw THEN st
    ELSE LET n == next[Len(next)]
             items == pl[t.data[n]].items
             ch == t.children[n]
             total == SeqSum([i \in 1..Len(items) |-> countOrZero(cs, items[i], feature)])
             a == st.featureCount[ch[1]]
             b == st.featureCount[ch[2]]
             new == IF items # <<>>
                    THEN [st EXCEPT !.featureCount[n] = [num |-> total, den |-> t.value[n]]]
                    ELSE IF Len(ch) < 2
                    THEN [st EXCEPT !.threw = TRUE]
                    ELSE [st EXCEPT !.featureCount[n] =
                             [num |-> a.num * b.den + b.num * a.den,
                              den |-> a.den * b.den
                                          * (Cardinality(descendants(t, n)) - 1)]]
         IN  featureCountLoop(t, pl, cs, feature, SubSeq(next, 1, Len(next) - 1), new)

NoFeatureCount == [num |-> 0, den |-> 0]

updateFeatureCounts(t, pl, cs, feature) ==
    featureCountLoop(t, pl, cs, feature, collectAfter(t, <<t.root>>, <<>>),
                     [featureCount |-> [n \in Refs |-> NoFeatureCount], threw |-> FALSE])

\* Math.abs
abs(x) == IF x < 0 THEN -x ELSE x

\* getMAD(values): the median of the distances to the median; undefined for no
\* values
getMAD(values) ==
    IF values = <<>> THEN NULL
    ELSE LET med == median(values)
         IN  median([i \in 1..Len(values) |-> abs(values[i] - med)])

RECURSIVE pow10(_)
pow10(k) == IF k = 0 THEN 1 ELSE 10 * pow10(k - 1)

\* d3 tickIncrement for the step a / b: power = floor(log10(step)), error =
\* step / 10^power, factor 10, 5, 2 or 1 as error >= sqrt(50), sqrt(10), sqrt(2);
\* the increment is factor * 10^power (up: TRUE), or for a negative power the
\* inverse step 10^-power / factor (up: FALSE)
tickIncrement(a, b) ==
    LET power == CHOOSE p \in -3..3 :
                     IF p >= 0
                     THEN pow10(p) * b <= a /\ a < pow10(p + 1) * b
                     ELSE b <= a * pow10(-p) /\ a * pow10(-p - 1) < b
        atLeast(sq) ==
            IF power >= 0 THEN a * a >= sq * b * b * pow10(2 * power)
            ELSE a * a * pow10(-2 * power) >= sq * b * b
        factor == IF atLeast(50) THEN 10 ELSE IF atLeast(10) THEN 5
                  ELSE IF atLeast(2) THEN 2 ELSE 1
    IN  IF power >= 0 THEN [up |-> TRUE, by |-> factor * pow10(power)]
        ELSE [up |-> FALSE, by |-> pow10(-power) \div factor]

\* d3 ticks(start, stop, count) for integers start <= stop: the multiples of the
\* increment in [start, stop], ascending, as fractions num / den; [start] when
\* start = stop and count > 0; nothing when the step is not a finite non-zero
\* number (count 0)
ticks(start, stop, count) ==
    IF start = stop /\ count > 0 THEN <<[num |-> start, den |-> 1]>>
    ELSE IF count <= 0 \/ start = stop THEN <<>>
    ELSE LET step == tickIncrement(stop - start, count)
             lo == IF step.up THEN (start + step.by - 1) \div step.by ELSE start * step.by
             hi == IF step.up THEN stop \div step.by ELSE stop * step.by
         IN  [i \in 1..(hi - lo + 1) |->
                 IF step.up THEN [num |-> (lo + i - 1) * step.by, den |-> 1]
                 ELSE [num |-> lo + i - 1, den |-> step.by]]

\* d3 min / max of an array; undefined for no values
minOf(values) ==
    IF values = <<>> THEN NULL
    ELSE CHOOSE v \in Range(values) : \A w \in Range(values) : v <= w

maxOf(values) ==
    IF values = <<>> THEN NULL
    ELSE CHOOSE v \in Range(values) : \A w \in Range(values) : v >= w

\* x || 0
orZero(x) == IF x = NULL THEN 0 ELSE x

\* a histogram that counts the values below each threshold
getPlainFeatureGroupsBelow(range) ==
    IF range = <<>> THEN <<>>
    ELSE LET thresholds == ticks(minOf(range), maxOf(range),
                                 IF maxOf(range) < 25 THEN maxOf(range) ELSE 25)
         IN  [i \in 1..Len(thresholds) |->
                 [at |-> thresholds[i],
                  count |-> Len(SelectSeq(range,
                      LAMBDA n : n * thresholds[i].den < thresholds[i].num))]]

\* getPlainFeatureGroups(range): for every tick of ticks(min, max, min(max, 25))
\* the number of values above it; with no values the extent is undefined and
\* there are no ticks
getPlainFeatureGroups(range) ==
    IF range = <<>> THEN <<>>
    ELSE LET thresholds == ticks(minOf(range), maxOf(range),
                                 IF maxOf(range) < 25 THEN maxOf(range) ELSE 25)
         IN  [i \in 1..Len(thresholds) |->
                 [at |-> thresholds[i],
                  count |-> Len(SelectSeq(range,
                      LAMBDA n : n * thresholds[i].den > thresholds[i].num))]]

\* getMadFeatureGroups(range, mad, median): for every tick m of
\* ticks(0, maxMads, min(maxMads, 25)), maxMads = ceil((max - median) / mad), the
\* number of values above median + mad * m; a division by a zero mad or an
\* undefined median make maxMads infinite or NaN, and there are no ticks
getMadFeatureGroups(range, mad, med) ==
    IF mad = 0 \/ med = NULL THEN <<>>
    ELSE LET maxMads == (orZero(maxOf(range)) - med + mad - 1) \div mad
             thresholds == ticks(0, maxMads, IF maxMads < 25 THEN maxMads ELSE 25)
         IN  [i \in 1..Len(thresholds) |->
                 [at |-> thresholds[i],
                  count |-> Len(SelectSeq(range,
                      LAMBDA n : n * thresholds[i].den
                                     > med * thresholds[i].den + mad * thresholds[i].num))]]

\* getFeatureDistributions(nodes, activeFeatures): for every active feature the
\* statistics of the counts of the cells of the leaves (maxProportion, which
\* reads the featureCount of the nodes, is left out)
getFeatureDistributions(t, pl, cs, activeFeatures) ==
    [f \in Range(activeFeatures) |->
        LET range == [i \in 1..Len(leafItems(t, pl)) |->
                         countOrZero(cs, leafItems(t, pl)[i], f)]
            nonZeroes == SelectSeq(range, LAMBDA v : v # 0)
            med == median(nonZeroes)
            mad == orZero(getMAD(nonZeroes))
        IN  [mad |-> mad,
             madGroups |-> getMadFeatureGroups(nonZeroes, mad, med),
             madWithZeroes |-> orZero(getMAD(range)),
             max |-> orZero(maxOf(range)),
             min |-> orZero(minOf(range)),
             median |-> orZero(med),
             medianWithZeroes |-> orZero(median(range)),
             plainGroups |-> getPlainFeatureGroups(nonZeroes),
             total |-> SeqSum(range)]]

\* getMaxCutoffDistance(tree): the least d.data.distance || 0 of the children of
\* the children of the root, a child without children counting as 0; 0 for a
\* root without children
getMaxCutoffDistance(pl, t) ==
    LET kids == Range(t.children[t.root])
        vals == UNION {IF t.children[c] = <<>> THEN {0}
                       ELSE {orZero(pl[t.data[g]].distance) : g \in Range(t.children[c])} :
                       c \in kids}
    IN  IF kids = {} THEN 0 ELSE CHOOSE v \in vals : \A w \in vals : v <= w

\* getMaxCutoffDistanceSearch(tree): the least d.data.distance || 0 of the
\* children of the root
getMaxCutoffDistanceSearch(pl, t) ==
    LET vals == {orZero(pl[t.data[c]].distance) : c \in Range(t.children[t.root])}
    IN  IF vals = {} THEN 0 ELSE CHOOSE v \in vals : \A w \in vals : v <= w

\* a cutoff at the greatest value of the children of the root
getMaxCutoffNodeSizeMax(t) ==
    LET vals == {t.value[c] : c \in Range(t.children[t.root])}
    IN  IF vals = {} THEN 0 ELSE CHOOSE v \in vals : \A w \in vals : v >= w

\* getMaxCutoffNodeSize(tree): the least d.value || 0 of the children of the root
getMaxCutoffNodeSize(t) ==
    LET vals == {t.value[c] : c \in Range(t.children[t.root])}
    IN  IF vals = {} THEN 0 ELSE CHOOSE v \in vals : \A w \in vals : v <= w

\* ------------------------------------------------------------------ state machine
NoCells == [b \in Barcodes |-> [f \in Features |-> NULL]]

NoCall == [fn |-> "none", arg |-> NULL, inp |-> NULL, out |-> NULL,
           pre |-> NoTree, prePayload |-> [r \in Refs |-> NoPayload],
           preCells |-> NoCells, again |-> FALSE, threw |-> FALSE]

\* getData() has not run / the annotation effects have not run
NoLoad == [pc |-> "none"]

\* the record of the last run of a feature annotation effect: what it read
\* (source: what the feature source holds; entries: the keys of the cells'
\* _featureCounts in the order they were written) and what it wrote
NoAnnot ==
    [fn |-> "none",
     source |-> [f \in Features |-> [b \in Barcodes |-> NULL]],
     entries |-> <<>>,
     featureMaps |-> <<>>, preCells |-> NoCells, thresholds |-> NoCounts,
     activeFeatures |-> <<>>, featureThresholds |-> [f \in Features |-> NULL],
     itemKey |-> [b \in Barcodes |-> ""],
     hilo |-> [n \in Refs |-> NoCounts], qty |-> [n \in Refs |-> NoCounts],
     featureCount |-> [n \in Refs |-> NoFeatureCount], threw |-> FALSE,
     distributions |-> NoCounts]

\* a prune step without click-prunes and without value pruner
\* FeatureSearch before a feature is selected: no active feature, an empty
\* domain, colour by label, no load in flight
NoScale == [activeFeatures |-> <<>>, domain |-> <<>>, variant |-> "labelCount",
            featureList |-> <<>>, flights |-> {}, overlap |-> FALSE,
            loading |-> FALSE]

\* no Histogram: no bins, no brush
NoBrush == [keys |-> <<>>, startX |-> 0, selectedIdx |-> NULL, selection |-> <<>>,
            reported |-> <<>>, gesture |-> <<>>, click |-> FALSE]

NoPruner == [key |-> "none", value |-> NULL]

EmptyStep == [clickPruneHistory |-> <<>>, valuePruner |-> NoPruner]

\* the prune history of a fresh store, before the effects have run; change is
\* the kind of the last change of the store, pending says that the effects
\* have not run since, pre and metaFrom are the visible tree the effects found
\* and the tree they handed to buildPruneMetadata
NoPrune ==
    [pruneHistory |-> <<EmptyStep>>, activePruneIndex |-> 0,
     change |-> "none", pending |-> TRUE, pre |-> <<>>, metaFrom |-> <<>>]

\* the garbage collector: a tree instance nobody references is gone
live(h, keep) == [s \in Slots |-> IF s \in keep THEN h[s] ELSE NoTree]

\* the tree a call is made on: the visible tree, or the tree the last call
\* returned when the caller applies the same function again to its result
input == IF call.fn = "none" THEN visibleNodes ELSE call.out

mem == [heap |-> live(heap, {0, visibleNodes, input}), payload |-> payload,
        cells |-> cells, ret |-> NULL]

\* the callers: a function is called on the visible tree with any argument, or
\* once more with the same argument on the tree it has just returned
MayCall(fn, arg) ==
    \/ call.fn = "none"
    \/ call.fn = fn /\ call.arg = arg /\ ~call.again /\ ~call.threw

Returned(fn, arg, inp, r) ==
    /\ heap' = r.heap
    /\ payload' = r.payload
    /\ cells' = r.cells
    /\ call' = [fn |-> fn, arg |-> arg, inp |-> inp, out |-> r.ret,
                pre |-> heap[inp], prePayload |-> payload, preCells |-> cells,
                again |-> (call.fn = fn), threw |-> FALSE]
    /\ UNCHANGED <<visibleNodes, load, annot, prune, scale, brush>>

Init ==
    \E flat \in FlatLists :
        /\ payload = [r \in Refs |-> IF r <= Len(flat) THEN flat[r] ELSE NoPayload]
        /\ heap = [s \in Slots |-> IF s = 0 THEN buildTree(flat) ELSE NoTree]
        /\ cells = NoCells
        /\ visibleNodes = 0
        /\ call = NoCall
        /\ load = NoLoad
        /\ annot = NoAnnot
        /\ prune = NoPrune
        /\ scale = NoScale
        /\ brush = NoBrush

PruneByMinValue ==
    \E t \in Thresholds :
        /\ MayCall("pruneTreeByMinValue", t)
        /\ Returned("pruneTreeByMinValue", t, input, pruneTreeByMinValue(mem, input, t))

PruneByDepth ==
    \E d \in Depths :
        /\ MayCall("pruneTreeByDepth", d)
        /\ Returned("pruneTreeByDepth", d, input, pruneTreeByDepth(mem, input, d))

PruneByMinDistance ==
    \E t \in Thresholds :
        /\ MayCall("pruneTreeByMinDistance", t)
        /\ Returned("pruneTreeByMinDistance", t, input, pruneTreeByMinDistance(mem, input, t))

PruneByMinDistanceSearch ==
    \E t \in Thresholds :
        /\ MayCall("pruneTreeByMinDistanceSearch", t)
        /\ Returned("pruneTreeByMinDistanceSearch", t, input,
                    pruneTreeByMinDistanceSearch(mem, input, t))

CollapseNode ==
    \E id \in Ids :
        /\ MayCall("collapseNode", id)
        /\ Returned("collapseNode", id, input, collapseNode(mem, input, id))

\* tree.find(...)! is undefined for an id the tree does not have and .copy()
\* on it throws: nothing is returned and nothing changes
SetRootNode ==
    \E id \in Ids :
        /\ MayCall("setRootNode", id)
        /\ IF findById(mem, input, id) # {}
           THEN Returned("setRootNode", id, input, setRootNode(mem, input, id))
           ELSE /\ call' = [NoCall EXCEPT !.fn = "setRootNode", !.arg = id,
                                          !.inp = input, !.out = input,
                                          !.pre = heap[input], !.prePayload = payload,
                                          !.again = (call.fn = "setRootNode"),
                                          !.threw = TRUE]
                /\ heap' = mem.heap
                /\ UNCHANGED <<payload, cells, visibleNodes, load, annot, prune, scale, brush>>

\* setVisibleNodes(...): the tree the call returned becomes the visible tree
\* (kept in slot 1; the trees nobody references any more are collected)
SetVisibleNodes ==
    /\ call.fn \notin {"none", "addFeaturesToCells"}
    /\ visibleNodes' = IF call.out = 0 THEN 0 ELSE 1
    /\ heap' = [s \in Slots |->
                   IF s = 0 THEN heap[0]
                   ELSE IF s = 1 /\ call.out # 0 THEN heap[call.out]
                   ELSE NoTree]
    /\ call' = NoCall
    /\ UNCHANGED <<payload, cells, load, annot, prune, scale, brush>>

Next ==
    \/ PruneByMinValue
    \/ PruneByDepth
    \/ PruneByMinDistance
    \/ PruneByMinDistanceSearch
    \/ CollapseNode
    \/ SetRootNode
    \/ SetVisibleNodes

Spec == Init /\ [][Next]_vars

\* the feature maps a fetch of the first feature can deliver for the cells of
\* tree t
FeatureMapsFor(t) ==
    LET own == UNION {Range(payload[t.data[n]].items) : n \in descendants(t, t.root)}
    IN  UNION {
            { [f \in fs |-> [b \in Barcodes |-> IF b \in own THEN v[f][b] ELSE NULL]] :
                v \in [fs -> [own -> FeatureValues]] }
            : fs \in {{FeatureNames[1]}} }

\* the featureMaps effect: annotate a copy of the base tree with the fetched maps
AddFeaturesToCells ==
    /\ call.fn = "none"
    /\ \E featureMaps \in FeatureMapsFor(heap[0]) :
           LET c == copy(mem, 0, heap[0].root)
           IN  Returned("addFeaturesToCells", featureMaps, 0,
                        addFeaturesToCells(c, c.ret, featureMaps))

\* clearFeatureMaps(): the effect is over and the annotated copy is dropped
ClearFeatureMaps ==
    /\ call.fn = "addFeaturesToCells"
    /\ call' = NoCall
    /\ heap' = live(heap, {0, visibleNodes})
    /\ UNCHANGED <<payload, cells, visibleNodes, load, annot, prune, scale, brush>>

NextAnnotate ==
    \/ AddFeaturesToCells
    \/ ClearFeatureMaps

SpecAnnotate == Init /\ [][NextAnnotate]_vars

\* the pruning effect on an empty step at index 0 (a full revert): the visible
\* tree is a fresh copy of the canonical tree
Revert ==
    /\ call.fn = "none"
    /\ LET c == copy([mem EXCEPT !.heap = live(heap, {0})], 0, heap[0].root)
       IN  heap' = [s \in Slots |->
                       IF s = 0 THEN heap[0]
                       ELSE IF s = 1 THEN c.heap[c.ret]
                       ELSE NoTree]
    /\ visibleNodes' = 1
    /\ UNCHANGED <<payload, cells, call, load, annot, prune, scale, brush>>

\* re-rooting by clicks: set a node as root, show the result, revert
NextReroot ==
    \/ SetRootNode
    \/ SetVisibleNodes
    \/ Revert

SpecReroot == Init /\ [][NextReroot]_vars

\* ------------------------------------------------------------------ feature annotation
\* the trees the effects are run on: as many cells in all as one leaf can hold
FeatureFlatLists ==
    {flat \in FlatLists :
        /\ \A i \in 1..Len(flat) : flat[i].distance = NULL
        /\ SeqSum([i \in 1..Len(flat) |-> Len(flat[i].items)]) \in ItemCounts}

\* what fetchFeatures returns for every feature name: a value for some of the
\* cells of the tree
SourcesFor(flat) ==
    LET own == UNION {Range(flat[i].items) : i \in 1..Len(flat)}
    IN  {[f \in Features |->
             [b \in Barcodes |-> IF b \in own THEN IF f = "F" THEN vF[b] ELSE vG[b] ELSE NULL]] :
            vF \in [own -> SourceValues("F")], vG \in [own -> SourceValues("G")]}

InitFeatures ==
    \E flat \in FeatureFlatLists :
        /\ payload = [r \in Refs |-> IF r <= Len(flat) THEN flat[r] ELSE NoPayload]
        /\ heap = [s \in Slots |-> IF s = 0 THEN buildTree(flat) ELSE NoTree]
        /\ cells = NoCells
        /\ visibleNodes = 0
        /\ call = NoCall
        /\ load = NoLoad
        /\ \E src \in SourcesFor(flat) : annot = [NoAnnot EXCEPT !.source = src]
        /\ prune = NoPrune
        /\ scale = NoScale
        /\ brush = NoBrush

\* the lists of distinct names out of a set of feature names
ListsOf(fs) ==
    {<<>>} \cup {<<f>> : f \in fs} \cup {p \in fs \X fs : p[1] # p[2]}

\* the featureMaps effect: annotate the cells of a copy of the base tree with
\* the maps of the store, in the order of their keys; dispatch as threshold of
\* every feature of the maps the median of its non-zero values; set the base
\* tree and clear the maps
FeatureMapsEffect ==
    \E order \in ListsOf(Features) \ {<<>>} :
        LET featureMaps == [f \in Range(order) |-> annot.source[f]]
            c == copy(mem, 0, heap[0].root)
            r == addFeaturesToCells(c, c.ret, featureMaps)
            treeWithCells == r.heap[r.ret]
            thresholds == [k \in Range(order) |->
                              defaultThreshold(treeWithCells, r.payload, r.cells, k)]
        IN  /\ cells' = r.cells
            /\ annot' = [NoAnnot EXCEPT
                             !.fn = "featureMaps",
                             !.source = annot.source,
                             !.entries = annot.entries \o
                                 SelectSeq(order, LAMBDA k : k \notin Range(annot.entries)),
                             !.featureMaps = order,
                             !.preCells = cells,
                             !.thresholds = thresholds]
            /\ UNCHANGED <<payload, heap, visibleNodes, call, load, prune, scale, brush>>

\* the thresholds the store can hold once the features fs have been loaded
ThresholdMaps(fs) ==
    {thr \in [Features -> {NULL} \cup UNION {ThresholdValues(f) : f \in Features}] :
        \A f \in Features :
            thr[f] \in IF f \in fs THEN ThresholdValues(f) ELSE {NULL}}

\* a render in which the selectors return other activeFeatures or
\* featureThresholds than the last run of the effect below has read: any list
\* of loaded features, any threshold for every loaded feature
SelectFeatures ==
    \E activeFeatures \in ListsOf(Range(annot.entries)) :
        \E featureThresholds \in ThresholdMaps(Range(annot.entries)) :
            /\ annot' = [NoAnnot EXCEPT
                             !.fn = "selected",
                             !.source = annot.source,
                             !.entries = annot.entries,
                             !.activeFeatures = activeFeatures,
                             !.featureThresholds = featureThresholds]
            /\ UNCHANGED <<payload, cells, heap, visibleNodes, call, load, prune, scale, brush>>

\* the [activeFeatures, featureThresholds] effect: categorize the cells of a
\* copy of the tree, count the single active feature, and set the base tree.
\* featureThresholds has a key, with an undefined value or not, for every
\* feature the featureMaps effect has dispatched a threshold for.
HiLoEffect ==
    /\ annot.fn = "selected"
    /\ Len(annot.activeFeatures) > 0 \/ Range(annot.entries) # {}
    /\ LET c == copy(mem, 0, heap[0].root)
           t == c.heap[c.ret]
           r == updatefeatureHiLos(t, payload, cells, annot.entries,
                                   annot.featureThresholds, annot.activeFeatures)
           fc == IF Len(annot.activeFeatures) = 1
                 THEN updateFeatureCounts(t, payload, cells, annot.activeFeatures[1])
                 ELSE [featureCount |-> NoAnnot.featureCount, threw |-> FALSE]
       IN  annot' = [annot EXCEPT
                        !.fn = "hiLos",
                        !.itemKey = r.itemKey,
                        !.hilo = r.hilo,
                        !.qty = r.qty,
                        !.featureCount = fc.featureCount,
                        !.threw = fc.threw,
                        !.distributions =
                            IF fc.threw THEN NoCounts
                            ELSE getFeatureDistributions(t, payload, cells,
                                                         annot.activeFeatures)]
    /\ UNCHANGED <<payload, cells, heap, visibleNodes, call, load, prune, scale, brush>>

NextFeatures ==
    \/ FeatureMapsEffect
    \/ SelectFeatures
    \/ HiLoEffect

SpecFeatures == InitFeatures /\ [][NextFeatures]_vars

\* ------------------------------------------------------------------ pruning effects
\* the nodes of a tree, as descendants() lists them
nodesOf(t) == descendants(t, t.root)

\* nodes, children lists and parent links of a tree
Structure(t) ==
    [nodes |-> nodesOf(t),
     children |-> [n \in nodesOf(t) |-> t.children[n]],
     parent |-> [n \in nodesOf(t) |-> t.parent[n]]]

\* the click-prunes and the value pruners of the steps
ClickPrunes == {[key |-> "collapse", value |-> 2]}

ValuePruners == {[key |-> "size", value |-> 2], [key |-> "depth", value |-> 1]}

\* a test that finds no step empty
pruneStepIsEmptyNever(step) == FALSE

\* pruneStepIsEmpty(step): the step has no click-prunes and no value pruner
pruneStepIsEmpty(step) ==
    step.clickPruneHistory = <<>> /\ step.valuePruner = NoPruner

\* one prune of a step applied to the tree m.ret; the tree it was applied to
\* is referenced no more
runPrune(m, p) ==
    LET r == CASE p.key = "collapse" -> collapseNode(m, m.ret, p.value)
               [] p.key = "size" -> pruneTreeByMinValue(m, m.ret, p.value)
               [] p.key = "depth" -> pruneTreeByDepth(m, m.ret, p.value)
    IN  [r EXCEPT !.heap = live(r.heap, {0, visibleNodes, r.ret})]

\* rerunPrunes(activePruneIndex, pruneHistory, tree): for every step from 0 to
\* the active index, its click-prunes in order, then its value pruner if it has
\* one, on the tree produced so far
RECURSIVE rerunPrunes(_, _, _)
rerunPrunes(activePruneIndex, pruneHistory, m) ==
    IF activePruneIndex < 0 THEN m
    ELSE LET step == pruneHistory[activePruneIndex + 1]
             prunes == step.clickPruneHistory \o
                           (IF step.valuePruner = NoPruner THEN <<>>
                            ELSE <<step.valuePruner>>)
             RECURSIVE run(_, _)
             run(mm, ps) == IF ps = <<>> THEN mm ELSE run(runPrune(mm, Head(ps)), Tail(ps))
         IN  run(rerunPrunes(activePruneIndex - 1, pruneHistory, m), prunes)

\* the changes of the prune store: a click-prune added to the active step, the
\* value pruner of the active step set or changed, the active index moved to
\* another step of the history, a new empty step added after the last and made
\* the active one
PruneChanges ==
    LET h == prune.pruneHistory
        a == prune.activePruneIndex + 1
    IN  {[change |-> "click", activePruneIndex |-> a - 1,
          pruneHistory |-> [h EXCEPT ![a].clickPruneHistory = @ \o <<c>>]] :
            c \in ClickPrunes \ Range(h[a].clickPruneHistory)}
        \cup
        {[change |-> "value", activePruneIndex |-> a - 1,
          pruneHistory |-> [h EXCEPT ![a].valuePruner = v]] :
            v \in ValuePruners \ {h[a].valuePruner}}
        \cup
        {[change |-> "index", activePruneIndex |-> i - 1, pruneHistory |-> h] :
            i \in (1..Len(h)) \ {a}}
        \cup
        {[change |-> "step", activePruneIndex |-> Len(h),
          pruneHistory |-> Append(h, EmptyStep)] :
            x \in IF Len(h) < MaxSteps THEN {0} ELSE {}}

\* a render after the prune store has changed: the selectors return the new
\* step, index and history
SelectPrune ==
    /\ ~prune.pending
    /\ \E c \in PruneChanges :
           prune' = [pruneHistory |-> c.pruneHistory,
                     activePruneIndex |-> c.activePruneIndex,
                     change |-> c.change, pending |-> TRUE,
                     pre |-> <<>>, metaFrom |-> <<>>]
    /\ UNCHANGED <<payload, cells, heap, visibleNodes, call, load, annot, scale, brush>>

\* the pruning effects after a render.  An empty step: the distributions are
\* built from a copy of the tree at index 0 and from the visible tree else, and
\* at index 0 the visible tree becomes a copy of the tree.  Another step:
\* recalculateLayout reruns the prunes on a copy of the tree and the result
\* becomes the visible tree (in slot 1).
PruneEffects ==
    /\ prune.pending
    /\ LET step == prune.pruneHistory[prune.activePruneIndex + 1]
           c == copy(mem, 0, heap[0].root)
           shown == IF pruneStepIsEmpty(step)
                    THEN IF prune.activePruneIndex = 0 THEN c
                         ELSE [mem EXCEPT !.ret = visibleNodes]
                    ELSE rerunPrunes(prune.activePruneIndex, prune.pruneHistory, c)
       IN  /\ heap' = [s \in Slots |->
                          IF s = 0 THEN heap[0]
                          ELSE IF s = 1 /\ shown.ret # 0 THEN shown.heap[shown.ret]
                          ELSE NoTree]
           /\ visibleNodes' = IF shown.ret = 0 THEN 0 ELSE 1
           /\ payload' = shown.payload
           /\ prune' = [prune EXCEPT
                            !.pending = FALSE,
                            !.pre = <<heap[visibleNodes]>>,
                            !.metaFrom =
                                IF ~pruneStepIsEmpty(step) THEN <<>>
                                ELSE IF prune.activePruneIndex = 0
                                THEN <<c.heap[c.ret]>>
                                ELSE <<heap[visibleNodes]>>]
    /\ UNCHANGED <<cells, call, load, annot, scale, brush>>

\* the trees without distances, with one cell in every leaf
InitPrune ==
    /\ Init
    /\ \A r \in Refs : payload[r].distance = NULL /\ Len(payload[r].items) <= 1

NextPrune ==
    \/ SelectPrune
    \/ PruneEffects

SpecPrune == InitPrune /\ [][NextPrune]_vars

\* ------------------------------------------------------------------ FeatureSearch.tsx
\* a combination list with the names sorted in ascending order
getScaleCombinationsAscending(featureList) ==
    LET sorted == sortNames(<<>>, featureList)
        RECURSIVE reduce(_, _)
        reduce(acc, ss) ==
            IF ss = <<>> THEN acc
            ELSE LET curr == <<"high-" \o Head(ss), "low-" \o Head(ss)>>
                 IN  reduce(IF acc = <<>> THEN curr
                            ELSE [i \in 1..(2 * Len(acc)) |->
                                     curr[((i - 1) % 2) + 1] \o "-"
                                         \o acc[((i - 1) \div 2) + 1]],
                            Tail(ss))
    IN  reduce(<<>>, sorted)

\* getScaleCombinations(featureList): the names sorted in descending order
\* (a > b ? -1 : 1), each mapped to [high-s, low-s], reduced from []: the first
\* pair as it is, then for every item so far and every inner of the pair
\* `${inner}-${item}`
getScaleCombinations(featureList) ==
    LET RECURSIVE sortDown(_, _)
        sortDown(acc, rest) ==
            IF rest = <<>> THEN acc
            ELSE LET x == Head(rest)
                     after == {i \in 1..Len(acc) : nameLess(acc[i], x)}
                     k == IF after = {} THEN Len(acc) + 1
                          ELSE CHOOSE i \in after : \A j \in after : i <= j
                 IN  sortDown(SubSeq(acc, 1, k - 1) \o <<x>> \o SubSeq(acc, k, Len(acc)),
                              Tail(rest))
        RECURSIVE reduce(_, _)
        reduce(acc, ss) ==
            IF ss = <<>> THEN acc
            ELSE LET curr == <<"high-" \o Head(ss), "low-" \o Head(ss)>>
                 IN  reduce(IF acc = <<>> THEN curr
                            ELSE [i \in 1..(2 * Len(acc)) |->
                                     curr[((i - 1) % 2) + 1] \o "-"
                                         \o acc[((i - 1) \div 2) + 1]],
                            Tail(ss))
    IN  reduce(<<>>, sortDown(<<>>, featureList))

\* addFeature({key, map}) of the feature slice: the key joins the active features
addFeature(activeFeatures, key) ==
    IF key \in Range(activeFeatures) THEN activeFeatures ELSE Append(activeFeatures, key)

\* removeActiveFeature(featureName) of the feature slice
removeActiveFeature(activeFeatures, featureName) ==
    SelectSeq(activeFeatures, LAMBDA f : f # featureName)

\* getFeature(feature) up to its await: setLoading(true) and the fetch is sent
\* (the feature map it brings is left out here); the call keeps the
\* activeFeatures of the render it was made in.  A feature that is neither
\* active nor being loaded is selected.
GetFeature ==
    /\ Cardinality(scale.flights) < MaxLoads
    /\ \E feature \in Range(FeatureNames) \ Range(scale.activeFeatures) :
           /\ \A l \in scale.flights : l.feature # feature
           /\ scale' = [scale EXCEPT
                            !.flights = @ \cup {[feature |-> feature,
                                                 activeFeatures |-> scale.activeFeatures]},
                            !.overlap = (scale.flights # {}),
                            !.loading = TRUE]
    /\ UNCHANGED <<payload, cells, heap, visibleNodes, call, load, annot, prune, brush>>

\* getFeature after its await, the fetches resolving in any order: addFeature,
\* updateColorScaleType('featureCount'), setLoading(false), and updateColorScale
\* with the
\* combinations of activeFeatures.filter(Boolean).concat(feature), the
\* activeFeatures being those the call has kept
FeatureFetched ==
    \E l \in scale.flights :
        LET featureList == SelectSeq(l.activeFeatures, LAMBDA f : f # "") \o <<l.feature>>
        IN  /\ scale' = [scale EXCEPT
                             !.activeFeatures = addFeature(@, l.feature),
                             !.variant = "featureCount",
                             !.featureList = featureList,
                             !.domain = getScaleCombinations(featureList),
                             !.flights = @ \ {l},
                             !.loading = FALSE]
            /\ UNCHANGED <<payload, cells, heap, visibleNodes, call, load, annot, prune, brush>>

\* removeFeature(featureName): removeActiveFeature, updateColorScale with the
\* combinations of the other active features, and colour by label again when
\* the feature was the only one
RemoveFeature ==
    \E featureName \in Range(scale.activeFeatures) :
        LET featureList == SelectSeq(scale.activeFeatures, LAMBDA f : f # featureName)
        IN  /\ scale' = [scale EXCEPT
                             !.activeFeatures = removeActiveFeature(@, featureName),
                             !.variant = IF Len(scale.activeFeatures) = 1
                                         THEN "labelCount" ELSE @,
                             !.featureList = featureList,
                             !.domain = getScaleCombinations(featureList)]
            /\ UNCHANGED <<payload, cells, heap, visibleNodes, call, load, annot, prune, brush>>

NextScale ==
    \/ GetFeature
    \/ FeatureFetched
    \/ RemoveFeature

\* FeatureSearch mounted over a tree of one leaf with one cell
InitScale ==
    /\ Init
    /\ heap[0].nodes = {1}
    /\ payload[1].distance = NULL
    /\ Len(payload[1].items) = 1

SpecScale == InitScale /\ [][NextScale]_vars

\* ------------------------------------------------------------------ AreaChart.ts
\* The x coordinates are counted in units of 1 / (greatest key - least key) of a
\* pixel, so that the start of every bin is a whole number.
\* xScale = scaleLinear([margin + 12, w - margin]).domain(extent(keys)), with
\* w = 400 and margin = 40: the range is [52, 360]; keys is ascending
xScale(keys, c) ==
    52 * (keys[Len(keys)] - keys[1]) + (c - keys[1]) * (360 - 52)

\* xScale.invert(x)
xScaleInvert(keys, x) ==
    keys[1] + (x - 52 * (keys[Len(keys)] - keys[1])) \div (360 - 52)

\* ticks of setBrush: the keys in ascending order, mapped through xScale
brushTicks(keys) == [i \in 1..Len(keys) |-> xScale(keys, keys[i])]

\* bisectDownSorted(arr, target): i = 0; while (target > arr[i + 1]) i++ (the
\* comparison with arr[i + 1] beyond the array is false); arr[i] is arr[i + 1] here
bisectDownSorted(arr, target) ==
    LET RECURSIVE loop(_)
        loop(i) == IF i + 2 <= Len(arr) /\ target > arr[i + 2] THEN loop(i + 1) ELSE i
    IN  loop(0)

\* where the pointer is put: the edges of the extent of the brush
\* ([margin, w - margin]), the start of every bin, the middle of every bin
Positions(keys) ==
    LET d == keys[Len(keys)] - keys[1]
        t == brushTicks(keys)
    IN  {40 * d, 360 * d} \cup Range(t)
            \cup {(t[i] + t[i + 1]) \div 2 : i \in 1..(Len(t) - 1)}

\* the selection d3-brush gives a gesture g with the pointer at c: from the
\* point of the mousedown to the pointer for a new brush, the selection of the
\* mousedown shifted with the pointer inside the extent when the mousedown was on
\* the selection
selectionAt(keys, g, c) ==
    LET d == keys[Len(keys)] - keys[1]
        dx == IF c - g.p < 40 * d - g.w0 THEN 40 * d - g.w0
              ELSE IF c - g.p > 360 * d - g.e0 THEN 360 * d - g.e0
              ELSE c - g.p
    IN  IF g.mode = "new" THEN (IF c < g.p THEN <<c, g.p>> ELSE <<g.p, c>>)
        ELSE <<g.w0 + dx, g.e0 + dx>>

\* a Histogram with two or more bins, its brush installed by setBrush
InitBrush ==
    /\ payload = [r \in Refs |-> NoPayload]
    /\ cells = NoCells
    /\ heap = [s \in Slots |-> NoTree]
    /\ visibleNodes = 0
    /\ call = NoCall
    /\ load = NoLoad
    /\ annot = NoAnnot
    /\ prune = NoPrune
    /\ scale = NoScale
    /\ \E ks \in SUBSET (0..MaxKey) :
           /\ Cardinality(ks) >= 2
           /\ brush = [NoBrush EXCEPT
                           !.keys = [i \in 1..Cardinality(ks) |->
                                        CHOOSE k \in ks :
                                            Cardinality({j \in ks : j < k}) = i - 1]]

\* the 'start' listener at a mousedown: startX = selection[0].  A mousedown
\* on the overlay starts a new selection at the pointer, a mousedown on the
\* selection takes it along
BrushStart ==
    /\ brush.gesture = <<>>
    /\ ~brush.click
    /\ \E p \in Positions(brush.keys) :
           LET onSelection == /\ brush.selection # <<>>
                              /\ brush.selection[1] <= p
                              /\ p <= brush.selection[2]
               g == IF onSelection
                    THEN [mode |-> "drag", p |-> p, w0 |-> brush.selection[1],
                          e0 |-> brush.selection[2], moved |-> FALSE]
                    ELSE [mode |-> "new", p |-> p, w0 |-> p, e0 |-> p, moved |-> FALSE]
           IN  brush' = [brush EXCEPT
                             !.gesture = <<g>>,
                             !.startX = g.w0,
                             !.selection = IF onSelection THEN @ ELSE <<>>]
    /\ UNCHANGED <<payload, cells, heap, visibleNodes, call, load, annot, prune, scale>>

\* brushed at a move of the pointer that changes the selection: the moving end
\* of the selection is rounded down to a bin, onBrush is called when
\* selectedIdx !== idx, and brush.move puts the brush at [ticks[idx], range()[1]]
\* (the events of brush.move have no sourceEvent and return at once)
Brushed ==
    /\ brush.gesture # <<>>
    /\ \E c \in Positions(brush.keys) :
           LET selection == selectionAt(brush.keys, brush.gesture[1], c)
               ticks0 == brushTicks(brush.keys)
               x == IF selection[1] >= brush.startX THEN selection[2] ELSE selection[1]
               idx == bisectDownSorted(ticks0, x)
               x0 == ticks0[idx + 1]
               x2 == 360 * (brush.keys[Len(brush.keys)] - brush.keys[1])
           IN  /\ selection[1] # selection[2]
               /\ selection # brush.selection
               /\ brush' = [brush EXCEPT
                                 !.gesture[1].moved = TRUE,
                                 !.selectedIdx = idx,
                                 !.reported = IF brush.selectedIdx # idx
                                              THEN <<xScaleInvert(brush.keys, ticks0[idx + 1])>>
                                              ELSE @,
                                 !.selection = <<x0, x2>>]
    /\ UNCHANGED <<payload, cells, heap, visibleNodes, call, load, annot, prune, scale>>

\* the 'end' listener at the mouseup: startX = 0.  After a gesture without a
\* move the browser sends the click
BrushEnd ==
    /\ brush.gesture # <<>>
    /\ brush' = [brush EXCEPT !.gesture = <<>>, !.startX = 0,
                              !.click = ~brush.gesture[1].moved]
    /\ UNCHANGED <<payload, cells, heap, visibleNodes, call, load, annot, prune, scale>>

\* the click listener: brush.move(select(this), [0, 0]) takes the brush away
\* (its 'start' and 'end' events leave startX = 0) and onBrush(0)
Click ==
    /\ brush.click
    /\ brush' = [brush EXCEPT !.click = FALSE, !.selection = <<>>, !.startX = 0,
                              !.reported = <<0>>]
    /\ UNCHANGED <<payload, cells, heap, visibleNodes, call, load, annot, prune, scale>>

NextBrush ==
    \/ BrushStart
    \/ Brushed
    \/ BrushEnd
    \/ Click

SpecBrush == InitBrush /\ [][NextBrush]_vars

\* ------------------------------------------------------------------ getData()
\* the files have been fetched and nothing is built yet (the text of labels.csv
\* is first read where it is split into lines, and is drawn there)
InitLoad ==
    /\ payload = [r \in Refs |-> NoPayload]
    /\ cells = NoCells
    /\ heap = [s \in Slots |-> NoTree]
    /\ visibleNodes = 0
    /\ call = NoCall
    /\ annot = NoAnnot
    /\ prune = NoPrune
    /\ scale = NoScale
    /\ brush = NoBrush
    /\ \E data \in RoseFiles :
           load = [pc |-> "fetched", data |-> data, labels |-> <<>>,
                   flat |-> <<>>, tree |-> NoTree, labelMap |-> NoCounts,
                   labelCount |-> <<>>, nodeId |-> <<>>]

Flatten ==
    /\ load.pc = "fetched"
    /\ load' = [load EXCEPT !.pc = "flat", !.flat = flatten(load.data, <<>>, NULL)]
    /\ UNCHANGED <<payload, cells, heap, visibleNodes, call, annot, prune, scale, brush>>

BuildTree ==
    /\ load.pc = "flat"
    /\ load' = [load EXCEPT !.pc = "tree", !.tree = buildTreeOf(load.flat)]
    /\ UNCHANGED <<payload, cells, heap, visibleNodes, call, annot, prune, scale, brush>>

ParseLabels ==
    /\ load.pc = "tree"
    /\ \E labels \in LabelFiles(load.data) :
           load' = [load EXCEPT !.pc = "labels", !.labels = labels,
                                !.labelMap = parseLabels(labels)]
    /\ UNCHANGED <<payload, cells, heap, visibleNodes, call, annot, prune, scale, brush>>

LabelPass ==
    /\ load.pc = "labels"
    /\ load' = [load EXCEPT !.pc = "labelled",
                            !.labelCount = labelPass(load.tree, load.flat, load.labelMap)]
    /\ UNCHANGED <<payload, cells, heap, visibleNodes, call, annot, prune, scale, brush>>

NodeIdPass ==
    /\ load.pc = "labelled"
    /\ load' = [load EXCEPT !.pc = "done", !.nodeId = nodeIdPass(load.tree)]
    /\ UNCHANGED <<payload, cells, heap, visibleNodes, call, annot, prune, scale, brush>>

NextLoad ==
    \/ Flatten
    \/ BuildTree
    \/ ParseLabels
    \/ LabelPass
    \/ NodeIdPass

SpecLoad == InitLoad /\ [][NextLoad]_vars

\* ------------------------------------------------------------------ properties
PruneFns ==
    {"pruneTreeByMinValue", "pruneTreeByMinDistance", "pruneTreeByMinDistanceSearch",
     "pruneTreeByDepth", "collapseNode"}

Called(fn) == call.fn = fn /\ ~call.threw

RECURSIVE properAncestors(_, _)
properAncestors(t, n) ==
    IF t.parent[n] = NULL THEN {} ELSE {t.parent[n]} \cup properAncestors(t, t.parent[n])

\* n and its ancestors, the root left out
nonRootAncestorsOrSelf(t, n) ==
    IF t.parent[n] = NULL THEN {} ELSE ({n} \cup properAncestors(t, n)) \ {t.root}

\* n and its siblings
siblingsAndSelf(t, n) == Range(t.children[t.parent[n]])

\* the memory after the call, with room for one more tree
memAfter ==
    [heap |-> live(heap, {0, call.inp}), payload |-> payload, cells |-> cells, ret |-> NULL]

treeOf(r) == r.heap[r.ret]

\* C1: pruneTreeByMinValue, pruneTreeByMinDistance, pruneTreeByMinDistanceSearch,
\* pruneTreeByDepth and collapseNode leave the tree they are given with the same
\* nodes and the same children list at every node.
C1_PruneLeavesInput ==
    call.fn \in PruneFns =>
        /\ nodesOf(heap[call.inp]) = nodesOf(call.pre)
        /\ \A n \in call.pre.nodes : heap[call.inp].children[n] = call.pre.children[n]

\* a prune of the canonical tree whose result has lost nodes
C1_Witness ==
    /\ call.fn \in PruneFns
    /\ call.inp = 0
    /\ nodesOf(heap[call.out]) # nodesOf(call.pre)

\* C2: setRootNode leaves every node of the tree it is given with the same
\* parent link and the same parentId in its payload.
C2_SetRootNodeLeavesInput ==
    Called("setRootNode") =>
        \A n \in call.pre.nodes :
            /\ heap[call.inp].parent[n] = call.pre.parent[n]
            /\ payload[call.pre.data[n]].parentId
                   = call.prePayload[call.pre.data[n]].parentId

\* C3: after addFeaturesToCells has run on a copy of the canonical tree, the
\* canonical tree has as many nodes as before and the feature values of the cells
\* of its leaves are what they were.
C3_AnnotateLeavesCanonical ==
    call.fn = "addFeaturesToCells" =>
        /\ Cardinality(nodesOf(heap[0])) = Cardinality(nodesOf(call.pre))
        /\ \A n \in leaves(heap[0]) :
               \A b \in Range(payload[heap[0].data[n]].items) :
                   cells[b] = call.preCells[b]

\* the tree A -> [B (1 item), C (2 items)] pruned with minSize 2
C4_Scenario ==
    /\ Called("pruneTreeByMinValue")
    /\ call.arg = 2
    /\ Cardinality(nodesOf(call.pre)) = 3
    /\ Len(call.pre.children[call.pre.root]) = 2
    /\ {call.pre.value[c] : c \in Range(call.pre.children[call.pre.root])} = {1, 2}

\* C4 as claimed: a non-root node survives pruneTreeByMinValue(tree, t) iff it and
\* every one of its non-root ancestors has value >= t.
C4_Original ==
    Called("pruneTreeByMinValue") =>
        nodesOf(heap[call.out]) =
            {n \in nodesOf(call.pre) :
                \A a \in nonRootAncestorsOrSelf(call.pre, n) : call.pre.value[a] >= call.arg}

\* C4 amended: the root always survives pruneTreeByMinValue(tree, t), and a
\* non-root node survives iff it, its non-root ancestors and all the siblings of
\* these have value >= t; on A -> [B (1 item), C (2 items)] with t = 2 only A is left.
C4_MinValueWithSiblings ==
    Called("pruneTreeByMinValue") =>
        /\ nodesOf(heap[call.out]) =
               {n \in nodesOf(call.pre) :
                   \A a \in nonRootAncestorsOrSelf(call.pre, n) :
                       \A s \in siblingsAndSelf(call.pre, a) : call.pre.value[s] >= call.arg}
        /\ C4_Scenario => nodesOf(heap[call.out]) = {call.pre.root}

\* the scenario tree pruned with 2: C, of value 2, is gone with B
C4_Witness ==
    /\ C4_Scenario
    /\ nodesOf(heap[call.out]) = {call.pre.root}

\* C5: the nodes of pruneTreeByMinValue(tree, t2) are among the nodes of
\* pruneTreeByMinValue(tree, t1) for all thresholds t1 < t2.
C5_MinValueMonotone ==
    Called("pruneTreeByMinValue") =>
        \A t1 \in Thresholds :
            t1 < call.arg =>
                nodesOf(heap[call.out])
                    \subseteq nodesOf(treeOf(pruneTreeByMinValue(memAfter, call.inp, t1)))

\* a threshold that removes nodes a smaller threshold keeps
C5_Witness ==
    /\ Called("pruneTreeByMinValue")
    /\ \E t1 \in Thresholds :
           /\ t1 < call.arg
           /\ nodesOf(heap[call.out])
                  # nodesOf(treeOf(pruneTreeByMinValue(memAfter, call.inp, t1)))

\* C6: each of the five rules applied with parameter p to its own result for p
\* returns a tree with the nodes, children lists and parent links of that result.
C6_Idempotent ==
    (call.fn \in PruneFns /\ call.again) =>
        Structure(heap[call.out]) = Structure(call.pre)

\* a rule applied again to a result in which it had removed nodes
C6_Witness ==
    /\ call.fn \in PruneFns
    /\ call.again
    /\ nodesOf(call.pre) # nodesOf(heap[visibleNodes])

\* the node has a defined, non-zero distance of at least thr
distanceAtLeast(n, thr) ==
    LET dist == call.prePayload[call.pre.data[n]].distance
    IN  dist # NULL /\ dist # 0 /\ dist >= thr

C9_Depth ==
    Called("pruneTreeByDepth") =>
        /\ nodesOf(heap[call.out]) = {n \in nodesOf(call.pre) : call.pre.depth[n] <= call.arg}
        /\ call.pre.root \in nodesOf(heap[call.out])
        /\ \A n \in nodesOf(heap[call.out]) :
               /\ call.pre.depth[n] = call.arg => heap[call.out].children[n] = <<>>
               /\ call.pre.depth[n] < call.arg =>
                      heap[call.out].children[n] = call.pre.children[n]

\* a node at the depth limit had children and lost them
C9_Witness ==
    /\ Called("pruneTreeByDepth")
    /\ \E n \in nodesOf(heap[call.out]) :
           /\ call.pre.depth[n] = call.arg
           /\ call.pre.children[n] # <<>>
           /\ heap[call.out].children[n] = <<>>

\* the nodes of the input of the call that carry the id asked for
C10_Target == {n \in nodesOf(call.pre) : call.prePayload[call.pre.data[n]].id = call.arg}

\* C10: collapseNode(tree, id) returns a copy in which the node with that id is
\* present without children, its descendants are absent and every node outside
\* its subtree is present with the children it had; with no such node the copy
\* has the nodes of the input.
C10_Collapse ==
    Called("collapseNode") =>
        IF C10_Target = {}
        THEN nodesOf(heap[call.out]) = nodesOf(call.pre)
        ELSE \A x \in C10_Target :
                /\ x \in nodesOf(heap[call.out])
                /\ heap[call.out].children[x] = <<>>
                /\ nodesOf(heap[call.out]) \cap (descendants(call.pre, x) \ {x}) = {}
                /\ \A n \in nodesOf(call.pre) \ descendants(call.pre, x) :
                       /\ n \in nodesOf(heap[call.out])
                       /\ heap[call.out].children[n] = call.pre.children[n]

\* a non-root node with children is collapsed
C10_Witness ==
    /\ Called("collapseNode")
    /\ \E x \in C10_Target :
           /\ x # call.pre.root
           /\ call.pre.children[x] # <<>>
           /\ heap[call.out].children[x] = <<>>

\* C11: for an id present in the tree, setRootNode(tree, id) returns a tree whose
\* nodes are exactly the target node and its descendants in the input, whose root
\* has no parent link and no parentId in its payload, and in which the parentId
\* of every non-root node is the id of a node of the returned tree.
C11_SetRootNode ==
    Called("setRootNode") =>
        LET t == heap[call.out]
            target == {n \in nodesOf(call.pre) :
                          call.prePayload[call.pre.data[n]].id = call.arg}
        IN  /\ nodesOf(t) = UNION {descendants(call.pre, x) : x \in target}
            /\ t.parent[t.root] = NULL
            /\ payload[t.data[t.root]].parentId = NULL
            /\ \A n \in nodesOf(t) \ {t.root} :
                   \E p \in nodesOf(t) :
                       payload[t.data[n]].parentId = payload[t.data[p]].id

\* ---- getData(): the tree built from the file
Built == load.pc \in {"tree", "labels", "labelled", "done"}

Labelled == load.pc \in {"labelled", "done"}

RECURSIVE SetSum(_, _)
SetSum(S, f) ==
    IF S = {} THEN 0
    ELSE LET x == CHOOSE y \in S : TRUE IN f[x] + SetSum(S \ {x}, f)

\* number of items of every node of the built tree
itemCount == [n \in load.tree.nodes |-> Len(load.flat[load.tree.data[n]].items)]

\* C12: in every tree built by buildTree from a flat node list, the value of
\* every node is the sum of items.length over the leaves of its subtree.
C12_ValueIsLeafItems ==
    Built =>
        \A n \in load.tree.nodes :
            load.tree.value[n] =
                SetSum({x \in descendants(load.tree, n) : load.tree.children[x] = <<>>},
                       itemCount)

\* a node below the root with two leaves under it, one of them with two items
C12_Witness ==
    /\ Built
    /\ \E n \in load.tree.nodes \ {load.tree.root} :
           /\ Len(load.tree.children[n]) = 2
           /\ load.tree.value[n] = 3

\* C13: in the tree returned by buildTree the children of every node are in
\* descending order of subtree item count, children of equal count in their
\* original order.
C13_SortedBySubtreeCount ==
    Built =>
        \A n \in load.tree.nodes :
            \A i \in 1..(Len(load.tree.children[n]) - 1) :
                LET a == load.tree.children[n][i]
                    b == load.tree.children[n][i + 1]
                IN  \/ load.tree.value[a] > load.tree.value[b]
                    \/ load.tree.value[a] = load.tree.value[b] /\ a < b

\* the nodes of the file, each named by the path of child positions to it
RECURSIVE Paths(_)
Paths(data) ==
    {<<>>} \cup UNION {{<<i>> \o q : q \in Paths(data.children[i])} :
                         i \in 1..Len(data.children)}

RECURSIVE nodeAt(_, _)
nodeAt(data, q) == IF q = <<>> THEN data ELSE nodeAt(data.children[Head(q)], Tail(q))

\* q comes before r in preorder
RECURSIVE before(_, _)
before(q, r) ==
    IF q = <<>> THEN r # <<>>
    ELSE IF r = <<>> THEN FALSE
    ELSE \/ Head(q) < Head(r)
         \/ Head(q) = Head(r) /\ before(Tail(q), Tail(r))

\* position of a node of the file in preorder
position(q) == 1 + Cardinality({r \in Paths(load.data) : before(r, q)})

enclosing(q) == SubSeq(q, 1, Len(q) - 1)

itemsAt(q) == IF nodeAt(load.data, q).hasMeta THEN nodeAt(load.data, q)._item ELSE <<>>

\* how many times cell b is among the items of the given lists
occurrences(b, lists) ==
    SetSum(DOMAIN lists,
           [i \in DOMAIN lists |-> Cardinality({j \in 1..Len(lists[i]) : lists[i][j] = b})])

\* C14: flattening a tree file and rebuilding it is a round trip. When flatten
\* has returned, it has emitted one flat node per node of the file, in preorder,
\* with distinct ids and with parentId the id of the enclosing node (none for
\* the root); when buildTree has returned, its tree has the parent/child topology
\* of the file and the same multiset of leaf items, up to the order of siblings.
C14_RoundTrip ==
    LET ps == Paths(load.data)
        flat == load.flat
        t == load.tree
        fileLeaves == {q \in ps : nodeAt(load.data, q).children = <<>>}
        treeLeaves == {n \in t.nodes : t.children[n] = <<>>}
        fileItems == [q \in fileLeaves |-> itemsAt(q)]
        treeItems == [n \in treeLeaves |-> flat[t.data[n]].items]
    IN  /\ load.pc \in {"flat", "tree"} =>
               /\ Len(flat) = Cardinality(ps)
               /\ \A i, j \in 1..Len(flat) : i # j => flat[i].id # flat[j].id
               /\ \A q \in ps :
                      /\ flat[position(q)].items = itemsAt(q)
                      /\ flat[position(q)].parentId =
                             IF q = <<>> THEN NULL ELSE flat[position(enclosing(q))].id
        /\ load.pc = "tree" =>
               /\ t.nodes = {position(q) : q \in ps}
               /\ t.root = position(<<>>)
               /\ \A q \in ps :
                      /\ t.parent[position(q)] =
                             IF q = <<>> THEN NULL ELSE position(enclosing(q))
                      /\ Len(t.children[position(q)]) = Len(nodeAt(load.data, q).children)
                      /\ Range(t.children[position(q)]) =
                             {position(r) : r \in {x \in ps \ {<<>>} : enclosing(x) = q}}
               /\ \A b \in Range(cellsOfFile(load.data)) \cup
                            UNION {Range(treeItems[n]) : n \in treeLeaves} :
                      occurrences(b, treeItems) = occurrences(b, fileItems)

\* a file of two levels below the root in which buildTree has moved a sibling
C14_Witness ==
    /\ load.pc = "tree"
    /\ \E q \in Paths(load.data) : Len(q) = 2
    /\ \E n \in load.tree.nodes :
           \E i \in 1..(Len(load.tree.children[n]) - 1) :
               load.tree.children[n][i] > load.tree.children[n][i + 1]

\* the leaves of the built tree and the items of a node
loadLeaves == {n \in load.tree.nodes : load.tree.children[n] = <<>>}

loadItems(n) == load.flat[load.tree.data[n]].items

\* C15: after the label pass a leaf's labelCount has one entry per label that
\* occurs among its items, counting the items whose barcode maps to that label;
\* an item whose barcode is not in the label map adds no key and no count.
C15_LeafLabelCount ==
    Labelled =>
        \A n \in loadLeaves :
            LET mapped == {i \in 1..Len(loadItems(n)) : loadItems(n)[i] \in DOMAIN load.labelMap}
                labelOf(i) == load.labelMap[loadItems(n)[i]]
            IN  /\ DOMAIN load.labelCount[n] = {labelOf(i) : i \in mapped}
                /\ \A k \in DOMAIN load.labelCount[n] :
                       load.labelCount[n][k] = Cardinality({i \in mapped : labelOf(i) = k})

\* the labelCount of child c of a node for key k, 0 when c has no such key
countOr0(c, k) == IF k \in DOMAIN load.labelCount[c] THEN load.labelCount[c][k] ELSE 0

\* C16: after the label pass the labelCount of every internal node is the
\* key-wise sum of the labelCounts of its children over the union of their keys,
\* a key missing on a child counting as 0.
C16_InternalLabelCount ==
    Labelled =>
        \A n \in load.tree.nodes \ loadLeaves :
            LET ch == load.tree.children[n]
            IN  /\ DOMAIN load.labelCount[n] =
                       UNION {DOMAIN load.labelCount[ch[i]] : i \in 1..Len(ch)}
                /\ \A k \in DOMAIN load.labelCount[n] :
                       load.labelCount[n][k] =
                           SeqSum([i \in 1..Len(ch) |-> countOr0(ch[i], k)])

\* an internal node below the root whose children do not have the same keys
C16_Witness ==
    /\ Labelled
    /\ \E n \in load.tree.nodes \ (loadLeaves \cup {load.tree.root}) :
           \E a, b \in Range(load.tree.children[n]) :
               /\ DOMAIN load.labelCount[a] # DOMAIN load.labelCount[b]
               /\ DOMAIN load.labelCount[a] \cap DOMAIN load.labelCount[b] # {}

\* ------------------------------------------------------------------ feature annotation
\* the cells of the leaves of the base tree
treeCells == UNION {Range(payload[heap[0].data[n]].items) : n \in leaves(heap[0])}

\* C17: after addFeaturesToCells(tree, featureMaps) every item of every leaf
\* holds, for every feature of the maps, the value the map has for its barcode,
\* or 0 when the barcode is absent from the map; its counts for the features that
\* are not in the maps are what they were before the call
C17_AddFeaturesToCells ==
    annot.fn = "featureMaps" =>
        \A b \in treeCells :
            \A f \in Features :
                cells[b][f] =
                    IF f \in Range(annot.featureMaps)
                    THEN IF annot.source[f][b] = NULL THEN 0 ELSE annot.source[f][b]
                    ELSE annot.preCells[b][f]

\* a second fetch, of G alone, on cells that hold a count of 5 for F, with a
\* barcode that is absent from the map of G
C17_Witness ==
    /\ annot.fn = "featureMaps"
    /\ annot.featureMaps = <<"G">>
    /\ \E b \in treeCells :
           /\ annot.source["G"][b] = NULL
           /\ annot.preCells[b]["F"] = 5
           /\ cells[b] = [f \in Features |-> IF f = "F" THEN 5 ELSE 0]

\* the non-zero counts of feature k over the cells of the leaves
nonZero(k) == {b \in treeCells : cells[b][k] \notin {NULL, 0}}

\* the value at index i (from 0) of the ascending order of the non-zero counts
nonZeroAt(k, i) ==
    CHOOSE v \in {cells[b][k] : b \in nonZero(k)} :
        /\ Cardinality({b \in nonZero(k) : cells[b][k] < v}) <= i
        /\ i < Cardinality({b \in nonZero(k) : cells[b][k] <= v})

\* C18: the default threshold of a fetched feature is the median of the non-zero
\* counts of the feature over all leaf items (twice the threshold is the sum of
\* the two middle values); with no non-zero count it is left undefined
C18_DefaultThreshold ==
    annot.fn = "featureMaps" =>
        \A k \in Range(annot.featureMaps) :
            LET n == Cardinality(nonZero(k))
            IN  IF n = 0 THEN annot.thresholds[k] = NULL
                ELSE /\ annot.thresholds[k] # NULL
                     /\ 2 * annot.thresholds[k]
                            = nonZeroAt(k, (n - 1) \div 2) + nonZeroAt(k, n \div 2)

\* a fetch of G and F: F has the counts 1 and 5 (threshold 3) and G only zeros
\* (threshold undefined)
C18_Witness ==
    /\ annot.fn = "featureMaps"
    /\ annot.featureMaps = <<"G", "F">>
    /\ \E b1 \in treeCells, b2 \in treeCells :
           /\ cells[b1]["F"] = 1 /\ cells[b2]["F"] = 5
           /\ cells[b1]["G"] = 0 /\ cells[b2]["G"] = 0
           /\ annot.thresholds = [k \in {"F", "G"} |-> IF k = "F" THEN 3 ELSE NULL]

\* the active features whose threshold is defined
definedActive ==
    SelectSeq(annot.activeFeatures, LAMBDA f : annot.featureThresholds[f] # NULL)

\* C19: an active feature whose threshold is undefined is left out of the
\* categorization: the key of every item is the key built from the active
\* features with a defined threshold, with no high- or low- segment for the others
C19_UndefinedThresholdExcluded ==
    annot.fn = "hiLos" =>
        \A b \in treeCells :
            annot.itemKey[b] =
                categoryKey(cells[b], annot.entries, annot.featureThresholds, definedActive)

\* the features of the key of cell b: the active features the cell holds a
\* count for, in ascending order of name
keyFeatures(b) ==
    SelectSeq(FeatureNames,
              LAMBDA f : f \in Range(annot.activeFeatures) /\ cells[b][f] # NULL)

\* segments joined by '-'
RECURSIVE joinKey(_)
joinKey(segments) ==
    IF segments = <<>> THEN ""
    ELSE IF Len(segments) = 1 THEN segments[1]
    ELSE segments[1] \o "-" \o joinKey(Tail(segments))

\* the key of cell b when the features of highs are its high ones
keyWith(b, highs) ==
    joinKey([i \in 1..Len(keyFeatures(b)) |->
                (IF keyFeatures(b)[i] \in highs THEN "high-" ELSE "low-")
                    \o keyFeatures(b)[i]])

\* with threshold 3 and the single active feature F, a count of 5 gives the key
\* 'high-F' and a count of 1 the key 'low-F'
scenarioKeys ==
    (annot.activeFeatures = <<"F">> /\ annot.featureThresholds["F"] = 3) =>
        \A b \in treeCells :
            /\ cells[b]["F"] = 5 => annot.itemKey[b] = "high-F"
            /\ cells[b]["F"] = 1 => annot.itemKey[b] = "low-F"

\* C20 as stated: the key of an item is built from the active features only, in
\* ascending order of name, each adding 'high-<name>' when the item's value is >=
\* the threshold of the feature and 'low-<name>' otherwise, joined by '-'
C20_Original ==
    annot.fn = "hiLos" =>
        /\ \A b \in treeCells :
               annot.itemKey[b] =
                   keyWith(b, {f \in Features :
                                  /\ annot.featureThresholds[f] # NULL
                                  /\ cells[b][f] >= annot.featureThresholds[f]})
        /\ scenarioKeys

\* C20: the key of an item is built from the active features only, in ascending
\* order of name, each adding 'high-<name>' when the item's value is not zero and
\* >= the threshold of the feature, and 'low-<name>' otherwise (a zero value and
\* an undefined threshold give 'low'), joined by '-'
C20_CategoryKey ==
    annot.fn = "hiLos" =>
        /\ \A b \in treeCells :
               annot.itemKey[b] =
                   keyWith(b, {f \in Features :
                                  /\ annot.featureThresholds[f] # NULL
                                  /\ cells[b][f] # 0
                                  /\ cells[b][f] >= annot.featureThresholds[f]})
        /\ scenarioKeys

\* G was fetched before F and both are active, G first: the item with the counts
\* 5 and 1 gets 'high-F-high-G', the item with 1 and 0 gets 'low-F-low-G'
C20_Witness ==
    /\ annot.fn = "hiLos"
    /\ annot.entries = <<"G", "F">>
    /\ annot.activeFeatures = <<"G", "F">>
    /\ annot.featureThresholds = [f \in Features |-> IF f = "F" THEN 3 ELSE 1]
    /\ \E b1 \in treeCells, b2 \in treeCells :
           /\ cells[b1] = [f \in Features |-> IF f = "F" THEN 5 ELSE 1]
           /\ cells[b2] = [f \in Features |-> IF f = "F" THEN 1 ELSE 0]
           /\ annot.itemKey[b1] = "high-F-high-G"
           /\ annot.itemKey[b2] = "low-F-low-G"

\* the items below node n of the base tree that carry the key
itemsWithKey(n, key) ==
    {b \in UNION {Range(payload[heap[0].data[d]].items) : d \in descendants(heap[0], n)} :
        annot.itemKey[b] = key}

\* C21: after the bottom-up category pass the quantity of every node for every
\* category key (a missing key counting as 0) is the number of items in the
\* subtree of the node that carry the key
C21_SubtreeQuantities ==
    annot.fn = "hiLos" =>
        \A n \in nodesOf(heap[0]) :
            \A key \in ({annot.itemKey[b] : b \in treeCells} \ {""}) \cup DOMAIN annot.hilo[n] :
                (IF key \in DOMAIN annot.hilo[n] THEN featureHiLosOf(annot, n)[key] ELSE 0)
                    = Cardinality(itemsWithKey(n, key))

\* the bins of a histogram are not negative and do not grow with the threshold
decreasing(groups) ==
    \A i \in 1..Len(groups) :
        /\ groups[i].count >= 0
        /\ \A j \in 1..Len(groups) :
               groups[i].at.num * groups[j].at.den < groups[j].at.num * groups[i].at.den
                   => groups[i].count >= groups[j].count

\* C22: for every active feature the distribution returned by
\* getFeatureDistributions has min <= median <= max and MAD >= 0, and in
\* plainGroups and madGroups every bin count is non-negative and does not
\* increase as the bin threshold increases
C22_DistributionSanity ==
    (annot.fn = "hiLos" /\ ~annot.threw) =>
        \A f \in Range(annot.activeFeatures) :
            LET d == annot.distributions[f]
            IN  /\ d.min <= d.median
                /\ d.median <= d.max
                /\ d.mad >= 0
                /\ decreasing(d.plainGroups)
                /\ decreasing(d.madGroups)

\* F is active with the counts 1 and 5: median 3, MAD 2, plain bins at 1..5
\* counting 1, 1, 1, 1, 0 and MAD bins at 0 and 1 counting 1 and 0
C22_Witness ==
    /\ annot.fn = "hiLos"
    /\ ~annot.threw
    /\ "F" \in Range(annot.activeFeatures)
    /\ LET d == annot.distributions["F"]
       IN  /\ d.min = 1 /\ d.median = 3 /\ d.max = 5 /\ d.mad = 2
           /\ [i \in 1..Len(d.plainGroups) |-> d.plainGroups[i].count] = <<1, 1, 1, 1, 0>>
           /\ [i \in 1..Len(d.madGroups) |-> d.madGroups[i].count] = <<1, 0>>

\* ------------------------------------------------------------------ pruning effects
\* the replay of the steps 0..activePruneIndex on a fresh copy of the tree
replayed ==
    LET c == copy(mem, 0, heap[0].root)
        r == rerunPrunes(prune.activePruneIndex, prune.pruneHistory, c)
    IN  Structure(r.heap[r.ret])

\* C23: after a click-prune is added to the active step, its value pruner is set
\* or changed, or the active index is moved to any step of the history, and the
\* effects have run, the visible tree is the replay of the steps 0..activeIndex
\* on a fresh copy of the canonical tree
C23_VisibleIsReplay ==
    (~prune.pending /\ prune.change \in {"click", "value", "index"}) =>
        Structure(heap[visibleNodes]) = replayed

\* C25: when the effects have run on an empty active step, at index 0 the
\* distributions were built from an unpruned copy of the canonical tree and the
\* visible tree is an unpruned copy of it; at an index above 0 the distributions
\* were built from the visible tree, and the visible tree is the one it was
C25_EmptyStep ==
    LET step == prune.pruneHistory[prune.activePruneIndex + 1]
    IN  (~prune.pending /\ step.clickPruneHistory = <<>> /\ step.valuePruner = NoPruner) =>
            IF prune.activePruneIndex = 0
            THEN /\ prune.metaFrom = <<heap[0]>>
                 /\ visibleNodes # 0
                 /\ heap[visibleNodes] = heap[0]
            ELSE /\ prune.metaFrom = prune.pre
                 /\ <<heap[visibleNodes]>> = prune.pre

\* a full revert: the index is moved back to the empty step 0 while a pruned
\* tree is shown
C25_Witness ==
    /\ ~prune.pending
    /\ prune.change = "index"
    /\ prune.activePruneIndex = 0
    /\ prune.pruneHistory[1] = EmptyStep
    /\ Len(prune.pre) = 1
    /\ Structure(prune.pre[1]) # Structure(heap[0])
    /\ heap[visibleNodes] = heap[0]

\* ------------------------------------------------------------------ cutoffs
\* C26: for a tree whose root has children, pruneTreeByMinDistance at a
\* threshold among ticks(0, getMaxCutoffDistance(tree), 50) and
\* pruneTreeByMinDistanceSearch at a threshold among
\* ticks(0, getMaxCutoffDistanceSearch(tree), 50) return a tree whose root has
\* the children it had.
C26_DistanceCutoffKeepsRootChildren ==
    LET t == call.pre
        cutoff == IF call.fn = "pruneTreeByMinDistance"
                  THEN getMaxCutoffDistance(call.prePayload, t)
                  ELSE getMaxCutoffDistanceSearch(call.prePayload, t)
        bounds == ticks(0, cutoff, 50)
    IN  (/\ Called("pruneTreeByMinDistance") \/ Called("pruneTreeByMinDistanceSearch")
         /\ t.children[t.root] # <<>>
         /\ \E i \in 1..Len(bounds) : bounds[i].num = call.arg * bounds[i].den)
        => heap[call.out].children[heap[call.out].root] = t.children[t.root]

\* C27: for a tree whose root has children and a threshold t with
\* 0 <= t <= getMaxCutoffNodeSize(tree), the root of pruneTreeByMinValue(tree, t)
\* has the children it had.
C27_SizeCutoffKeepsRootChildren ==
    LET t == call.pre
    IN  (/\ Called("pruneTreeByMinValue")
         /\ t.children[t.root] # <<>>
         /\ call.arg <= getMaxCutoffNodeSize(t))
        => heap[call.out].children[heap[call.out].root] = t.children[t.root]

\* pruneTreeByMinValue has run at the cutoff of a tree whose root has two
\* children of different values, and one step above the cutoff the children go
C27_Witness ==
    LET t == call.pre
    IN  /\ Called("pruneTreeByMinValue")
        /\ Len(t.children[t.root]) = 2
        /\ t.value[t.children[t.root][1]] # t.value[t.children[t.root][2]]
        /\ call.arg = getMaxCutoffNodeSize(t)
        /\ call.arg > 0
        /\ heap[call.out].children[heap[call.out].root] = t.children[t.root]
        /\ treeOf(pruneTreeByMinValue(memAfter, call.inp, call.arg + 1)).children[t.root] = <<>>

\* C28: in every tree that pruneTreeByMinValue, pruneTreeByDepth,
\* pruneTreeByMinDistance, pruneTreeByMinDistanceSearch and collapseNode, applied
\* in any sequence, make of the canonical tree, every node has all the children
\* it has in the canonical tree or none, and the value it has there.
C28_AllChildrenOrNone ==
    \A s \in Slots :
        (heap[s] # NoTree /\ heap[s].root = heap[0].root) =>
            \A n \in nodesOf(heap[s]) :
                /\ heap[s].children[n] \in {<<>>, heap[0].children[n]}
                /\ heap[s].value[n] = heap[0].value[n]

\* pruneTreeByMinValue has taken the last child from a visible tree that an
\* earlier prune by another function had left with a part of the canonical nodes
C28_Witness ==
    /\ Called("pruneTreeByMinValue")
    /\ call.inp = 1
    /\ nodesOf(call.pre) # nodesOf(heap[0])
    /\ nodesOf(heap[call.out]) # nodesOf(call.pre)
    /\ heap[call.out].root = heap[0].root

\* ------------------------------------------------------------------ FeatureSearch.tsx
\* C24: when two or more getFeature loads were in flight at a time and all of
\* them have completed, the domain of the colour scale stored last is
\* getScaleCombinations of all the active features.
C24_DomainOfAllActiveFeatures ==
    (scale.overlap /\ scale.flights = {}) =>
        scale.domain = getScaleCombinations(scale.activeFeatures)

\* C29: for a non-empty list of n distinct feature names getScaleCombinations
\* returns 2^n distinct keys, and they are the keys the annotator gives to
\* the items that hold a count for each of the features: the names in ascending
\* order, each after 'high-' or 'low-', joined by '-'.
C29_ScaleCombinations ==
    LET fs == scale.featureList
        n == Len(fs)
        counts == [Range(fs) -> {0, 1, 5}]
        thresholds == [Range(fs) -> {NULL, 0, 3}]
    IN  n > 0 =>
            /\ Len(scale.domain) = 2 ^ n
            /\ Cardinality(Range(scale.domain)) = 2 ^ n
            /\ Range(scale.domain) =
                   {categoryKey(c, fs, thr, fs) : c \in counts, thr \in thresholds}
            /\ Range(scale.domain) =
                   {joinKey([i \in 1..n |->
                                (IF sortNames(<<>>, fs)[i] \in highs THEN "high-" ELSE "low-")
                                    \o sortNames(<<>>, fs)[i]]) :
                       highs \in SUBSET Range(fs)}

\* the domain of three features, loaded one after the other in descending
\* order of name, has been stored
C29_Witness ==
    /\ scale.featureList = <<"H", "G", "F">>
    /\ scale.activeFeatures = <<"H", "G", "F">>
    /\ scale.domain = getScaleCombinations(scale.featureList)
    /\ scale.domain[1] = "high-F-high-G-high-H"
    /\ scale.domain[2] = "low-F-high-G-high-H"
    /\ Len(scale.domain) = 8

\* ------------------------------------------------------------------ AreaChart.ts
\* C30: after any brush-drag and click events on the brush that setBrush
\* installed, the last value passed to onBrush is the key of the bin at which
\* the brush is shown, also when the brush is dragged after a click into the bin
\* it was at before the click.
C30_ReportIdentifiesBin ==
    brush.selection # <<>> =>
        brush.reported = <<xScaleInvert(brush.keys, brush.selection[1])>>
====
